---- MODULE Spec2Model ----
(***************************************************************************)
(* Chrome Tabber: the session reconciliation engine.                       *)
(*                                                                         *)
(*   tabs.js               getTabsetWinCount, getTabsDiff, getTabsetDiff   *)
(*   tabber_session.js     TabberSession, isSessionValid, getSessionDiff   *)
(*   sync_phase_handler.js TabberInternal.SyncPhaseHandler                 *)
(*   tabber.js             TabberClass (the reconciliation controller)     *)
(*                                                                         *)
(* Encodings.  A JavaScript value that is not a number where a number is   *)
(* expected is a negative sentinel: updateTime === false is NoTime, a tab  *)
(* id or windowId that is undefined is NoId / NoWin.  A status or diff     *)
(* message is a record [prefix, count, text]; the empty string is NoMsg.   *)
(* A flat key-value record of chrome.storage is a function from key        *)
(* strings to values.                                                      *)
(***************************************************************************)
EXTENDS Integers, Sequences, FiniteSets, Bags, TLC

\* ------------------------------------------------------------------ bounds

\* Highest generation of the sessions other devices have saved.
MaxRemoteGen == 2
\* Most answers of chrome.tabs.query in one run.
MaxQueries == 2
\* Latest reading of the clock.
MaxTime == 1
\* Most calls the popup UI makes in one run.
MaxUiCalls == 1
\* Most changes other devices and the user make in one run.
MaxEnvEvents == 1
\* Most doStep calls of the phase sequencer's stand-alone client.
MaxSteps == 4
\* Most calls the stand-alone user of sessions makes in one run.
MaxSessionOps == 3
\* Most tabs of the local and of the remote session the window matcher and
\* getTabsetDiff are given.
MaxLocalMatchTabs == 3
MaxRemoteMatchTabs == 2
\* Most tab notifications of one run of the burst scenario.
MaxBurst == 3
\* Most tabs of the browser and of the remote session in a restore run alone.
MaxRestoreTabs == 3

\* --------------------------------------------------------------- sentinels

NoTime == -1
NoId == -1
NoWin == -1
NoMsg == [prefix |-> "", count |-> 0, text |-> ""]

Msg(prefix, count, text) == [prefix |-> prefix, count |-> count, text |-> text]

\* JavaScript truthiness of a message string.
Truthy(m) == m.text # ""

\* A diff report; threw says that computing it raised a TypeError instead.
NoDiff == [major |-> NoMsg, minor |-> NoMsg, err |-> FALSE, threw |-> FALSE]

\* ------------------------------------------------------------------- tabs

Tab(url, index, id, windowId, active) ==
  [url |-> url, index |-> index, id |-> id, windowId |-> windowId, active |-> active]

\* An array slot that was never assigned (tabs[n] = v with n > tabs.length).
HoleTab == Tab("<hole>", -1, NoId, NoWin, FALSE)

Range(f) == {f[x] : x \in DOMAIN f}

Max(a, b) == IF a >= b THEN a ELSE b

getTabsetWinCount(tabs) == Cardinality({tabs[t].windowId : t \in DOMAIN tabs})

getTabsDiff(tab1, tab2) ==
  IF tab1.url # tab2.url
    THEN [NoDiff EXCEPT !.major = Msg("", 0, "different URLs")]
  ELSE IF tab1.active # tab2.active
    THEN [NoDiff EXCEPT !.minor = Msg("", 0, "a different active tab.")]
  ELSE NoDiff

\* A scan that stops at the first position with any difference.
RECURSIVE ScanTabsFirstDiff(_, _, _, _)
ScanTabsFirstDiff(tabs1, tabs2, t, dif) ==
  IF t > Len(tabs1) THEN dif
  ELSE LET diff == getTabsDiff(tabs1[t], tabs2[t]) IN
       IF Truthy(diff.major) \/ Truthy(diff.minor) THEN diff
       ELSE ScanTabsFirstDiff(tabs1, tabs2, t + 1, dif)

\* The position-by-position part of getTabsetDiff: the first major difference,
\* else the first minor one.
RECURSIVE ScanTabs(_, _, _, _)
ScanTabs(tabs1, tabs2, t, dif) ==
  IF t > Len(tabs1) THEN dif
  ELSE LET diff == getTabsDiff(tabs1[t], tabs2[t]) IN
       IF Truthy(diff.major) THEN diff
       ELSE IF Truthy(diff.minor) /\ ~Truthy(dif.minor)
         THEN ScanTabs(tabs1, tabs2, t + 1, [dif EXCEPT !.minor = diff.minor])
       ELSE ScanTabs(tabs1, tabs2, t + 1, dif)

HasHole(tabs) == \E t \in DOMAIN tabs : tabs[t] = HoleTab

getTabsetDiff(tabs1, tabs2) ==
  IF Len(tabs1) # Len(tabs2)
    THEN IF Len(tabs1) > Len(tabs2)
           THEN [NoDiff EXCEPT !.major = Msg("", Len(tabs1) - Len(tabs2), "fewer tabs")]
           ELSE [NoDiff EXCEPT !.major = Msg("", Len(tabs2) - Len(tabs1), "more tabs")]
  \* tab.windowId of a slot that is undefined
  ELSE IF HasHole(tabs1) \/ HasHole(tabs2) THEN [NoDiff EXCEPT !.threw = TRUE]
  ELSE LET wincnt1 == getTabsetWinCount(tabs1)
           wincnt2 == getTabsetWinCount(tabs2) IN
       IF wincnt1 # wincnt2
         THEN IF wincnt1 > wincnt2
                THEN [NoDiff EXCEPT !.major = Msg("", wincnt1 - wincnt2, "fewer windows")]
                ELSE [NoDiff EXCEPT !.major = Msg("", wincnt2 - wincnt1, "more windows")]
       ELSE ScanTabs(tabs1, tabs2, 1, NoDiff)

\* --------------------------------------------------------------- sessions

\* new TabberSession(opt_initial) with a number or nothing.  extra holds the
\* names of the own properties the object has beside the five of the
\* constructor; their values are not modelled.
NewSession(gen) ==
  [description |-> "default", generation |-> gen, updateTime |-> NoTime,
   tabs |-> <<>>, numtabs |-> 0, extra |-> {}]

\* new TabberSession(other): a deep copy, numtabs reset to the tab count.
CloneSession(sess) == [sess EXCEPT !.numtabs = Len(sess.tabs)]

\* touch() with the clock reading t.
Touch(sess, t) == [sess EXCEPT !.updateTime = t, !.generation = sess.generation + 1]

\* A refresh that touches the session as it is, uninitialised or not.
RefreshedNoInit(loc, tabs, t) == Touch([loc EXCEPT !.tabs = tabs], t)

\* The local session once currentTabs accepted the tabs chrome answered: the
\* new tabs, generation 0 if it was uninitialised, then touch().
Refreshed(loc, tabs, t) ==
  Touch([loc EXCEPT !.tabs = tabs,
                    !.generation = IF loc.generation < 0 THEN 0 ELSE loc.generation],
        t)

TabKeyNames == <<"Tab_0", "Tab_1", "Tab_2", "Tab_3", "Tab_4", "Tab_5">>
TabKey(n) == TabKeyNames[n + 1]
IsTabKey(key) == \E i \in DOMAIN TabKeyNames : TabKeyNames[i] = key
\* A key that starts with 'Tab_' and has no number after it: parseInt gives NaN.
NaNTabKey == "Tab_x"
\* key.startsWith('Tab_')
StartsWithTab(key) == IsTabKey(key) \/ key = NaNTabKey
\* parseInt(key.split('_')[1], 10)
TabKeyIndex(key) == (CHOOSE i \in DOMAIN TabKeyNames : TabKeyNames[i] = key) - 1

SessionProps == {"description", "generation", "updateTime", "tabs", "numtabs"}
\* A name the session object inherits from its prototype: `prop in sess` holds.
MethodNames == {"touch"}
\* The value of an own property that is none of the five.
ExtraValue == 0

isPropertyValid(prop) ==
  IF prop = "" THEN FALSE
  ELSE IF StartsWithTab(prop) THEN TRUE
  ELSE IF prop = "tabs" THEN FALSE
  ELSE prop \in SessionProps \cup MethodNames

\* A toSync that writes the numtabs property as it stands.
toSyncStale(sess) ==
  [key \in {"description", "generation", "updateTime", "numtabs"} \cup sess.extra
           \cup {TabKey(t - 1) : t \in DOMAIN sess.tabs} |->
     IF key = "description" THEN sess.description
     ELSE IF key = "generation" THEN sess.generation
     ELSE IF key = "updateTime" THEN sess.updateTime
     ELSE IF key = "numtabs" THEN sess.numtabs
     ELSE IF key \in sess.extra THEN ExtraValue
     ELSE sess.tabs[TabKeyIndex(key) + 1]]

\* toSync(): every own property but tabs, then numtabs and one key per tab.
toSync(sess) ==
  [key \in {"description", "generation", "updateTime", "numtabs"} \cup sess.extra
           \cup {TabKey(t - 1) : t \in DOMAIN sess.tabs} |->
     IF key = "description" THEN sess.description
     ELSE IF key = "generation" THEN sess.generation
     ELSE IF key = "updateTime" THEN sess.updateTime
     ELSE IF key = "numtabs" THEN Len(sess.tabs)
     ELSE IF key \in sess.extra THEN ExtraValue
     ELSE sess.tabs[TabKeyIndex(key) + 1]]

\* this.tabs[t] = value, t counted from 0; a slot beyond the end leaves holes.
SetTabSlot(tabs, t, value) ==
  [i \in 1..Max(Len(tabs), t + 1) |->
     IF i = t + 1 THEN value ELSE IF i <= Len(tabs) THEN tabs[i] ELSE HoleTab]

\* update(key, value): the session after the call and whether it was accepted.
update(sess, key, value) ==
  IF ~isPropertyValid(key) THEN [sess |-> sess, ok |-> FALSE]
  \* t is NaN: t >= this.numtabs is false, this.tabs[NaN] = value adds a
  \* property to the array that is none of its elements
  ELSE IF key = NaNTabKey THEN [sess |-> sess, ok |-> TRUE]
  ELSE IF IsTabKey(key)
    THEN LET t == TabKeyIndex(key) IN
         IF t >= sess.numtabs THEN [sess |-> sess, ok |-> FALSE]
         ELSE [sess |-> [sess EXCEPT !.tabs = SetTabSlot(sess.tabs, t, value)],
               ok |-> TRUE]
  ELSE IF key = "numtabs"
    THEN [sess |-> IF value < Len(sess.tabs)
                     THEN [sess EXCEPT !.numtabs = value,
                                       !.tabs = SubSeq(sess.tabs, 1, value)]
                     ELSE [sess EXCEPT !.numtabs = value],
          ok |-> TRUE]
  ELSE IF key = "description"
    THEN [sess |-> [sess EXCEPT !.description = value], ok |-> TRUE]
  ELSE IF key = "generation"
    THEN [sess |-> [sess EXCEPT !.generation = value], ok |-> TRUE]
  ELSE IF key = "updateTime"
    THEN [sess |-> [sess EXCEPT !.updateTime = value], ok |-> TRUE]
  \* this[key] = value for a name of the prototype: an own property
  ELSE [sess |-> [sess EXCEPT !.extra = @ \cup {key}], ok |-> TRUE]

\* The order in which `for (key in props)` visits the keys of a record.
KeyOrder ==
  <<"description", "generation", "updateTime", "numtabs", "options", "junk", "touch">>
  \o TabKeyNames \o <<NaNTabKey>>

\* The loop of updateProps over the keys from position i of KeyOrder on.
RECURSIVE UpdateLoop(_, _, _, _)
UpdateLoop(sess, props, i, obsolete) ==
  IF i > Len(KeyOrder) THEN [sess |-> sess, obsoleteKeys |-> obsolete]
  ELSE LET key == KeyOrder[i] IN
       IF key \notin DOMAIN props THEN UpdateLoop(sess, props, i + 1, obsolete)
       ELSE LET r == update(sess, key, props[key]) IN
            UpdateLoop(r.sess, props, i + 1,
                       IF r.ok THEN obsolete ELSE obsolete \cup {key})

\* updateProps(props): numtabs first, then every key.
updateProps(sess, props) ==
  LET first == IF "numtabs" \in DOMAIN props
                 THEN update(sess, "numtabs", props["numtabs"]).sess
                 ELSE sess IN
  UpdateLoop(first, props, 1, {})

\* The loop of fromSync over the keys from position i of KeyOrder on: a tab
\* key pushes its value, a session property takes it; any other key becomes
\* an own property of the session.
RECURSIVE FromSyncLoop(_, _, _)
FromSyncLoop(sess, syncObj, i) ==
  IF i > Len(KeyOrder) THEN sess
  ELSE LET key == KeyOrder[i] IN
       IF key \notin DOMAIN syncObj THEN FromSyncLoop(sess, syncObj, i + 1)
       ELSE FromSyncLoop(
              IF StartsWithTab(key) THEN [sess EXCEPT !.tabs = Append(@, syncObj[key])]
              ELSE IF key = "description" THEN [sess EXCEPT !.description = syncObj[key]]
              ELSE IF key = "generation" THEN [sess EXCEPT !.generation = syncObj[key]]
              ELSE IF key = "updateTime" THEN [sess EXCEPT !.updateTime = syncObj[key]]
              ELSE IF key = "numtabs" THEN [sess EXCEPT !.numtabs = syncObj[key]]
              ELSE [sess EXCEPT !.extra = @ \cup {key}],
              syncObj, i + 1)

\* fromSync(syncObj)
fromSync(sess, syncObj) == CloneSession(FromSyncLoop(sess, syncObj, 1))

TabValid(tab) == tab.index >= 0 /\ tab.url # "<hole>" /\ tab.id >= 0

isSessionValid(sess) ==
  /\ sess.updateTime # NoTime
  /\ Len(sess.tabs) >= 1
  /\ \A t \in DOMAIN sess.tabs : TabValid(sess.tabs[t])

\* isSessionValid raises a TypeError when its loop reaches a slot that is
\* undefined before it reaches a tab that fails the checks.
isSessionValidThrows(sess) ==
  /\ sess.updateTime # NoTime
  /\ \E t \in DOMAIN sess.tabs :
       sess.tabs[t] = HoleTab /\ \A u \in 1..(t - 1) : TabValid(sess.tabs[u])

\* A report without the else: a minor difference is reported as major too.
SessionDiffReportBoth(tabDiff) ==
  IF Truthy(tabDiff.major)
    THEN [NoDiff EXCEPT !.major = [tabDiff.major EXCEPT !.prefix = "Saved session has "]]
  ELSE IF Truthy(tabDiff.minor)
    THEN [NoDiff EXCEPT !.major = [tabDiff.minor EXCEPT !.prefix = "Saved session has "],
                        !.minor = [tabDiff.minor EXCEPT !.prefix = "Saved session has "]]
  ELSE NoDiff

\* The report getSessionDiff makes of a tab set difference.
SessionDiffReport(tabDiff) ==
  IF Truthy(tabDiff.major)
    THEN [NoDiff EXCEPT !.major = [tabDiff.major EXCEPT !.prefix = "Saved session has "]]
  ELSE IF Truthy(tabDiff.minor)
    THEN [NoDiff EXCEPT !.minor = [tabDiff.minor EXCEPT !.prefix = "Saved session has "]]
  ELSE NoDiff

\* A comparison that leaves a generation mismatch as it is.
CompareSessionsKeepGen(loc, rem, tabDiff) ==
  IF tabDiff.threw THEN [diff |-> tabDiff, loc |-> loc, rem |-> rem]
  ELSE IF Truthy(tabDiff.major) \/ Truthy(tabDiff.minor)
    THEN [diff |-> SessionDiffReport(tabDiff),
          loc |-> IF loc.generation = rem.generation
                    THEN [loc EXCEPT !.generation = loc.generation + 1]
                    ELSE loc,
          rem |-> rem]
  ELSE LET time == IF loc.updateTime # rem.updateTime
                     THEN Max(Max(loc.updateTime, 0), Max(rem.updateTime, 0))
                     ELSE loc.updateTime IN
       [diff |-> NoDiff,
        loc |-> [loc EXCEPT !.updateTime = time],
        rem |-> [rem EXCEPT !.updateTime = time]]

\* A comparison that leaves a generation tie as it is.
CompareSessionsNoBump(loc, rem, tabDiff) ==
  IF tabDiff.threw THEN [diff |-> tabDiff, loc |-> loc, rem |-> rem]
  ELSE IF Truthy(tabDiff.major) \/ Truthy(tabDiff.minor)
    THEN [diff |-> SessionDiffReport(tabDiff), loc |-> loc, rem |-> rem]
  ELSE LET gen == IF loc.generation # rem.generation
                    THEN rem.generation ELSE loc.generation
           time == IF loc.updateTime # rem.updateTime
                     THEN Max(Max(loc.updateTime, 0), Max(rem.updateTime, 0))
                     ELSE loc.updateTime IN
       [diff |-> NoDiff,
        loc |-> [loc EXCEPT !.generation = gen, !.updateTime = time],
        rem |-> [rem EXCEPT !.updateTime = time]]

\* getSessionDiff once both sessions have tabs; tabDiff is getTabsetDiff's answer.
CompareSessions(loc, rem, tabDiff) ==
  IF tabDiff.threw THEN [diff |-> tabDiff, loc |-> loc, rem |-> rem]
  ELSE IF Truthy(tabDiff.major) \/ Truthy(tabDiff.minor)
    THEN [diff |-> SessionDiffReport(tabDiff),
          loc |-> IF loc.generation = rem.generation
                    THEN [loc EXCEPT !.generation = loc.generation + 1]
                    ELSE loc,
          rem |-> rem]
  ELSE LET gen == IF loc.generation # rem.generation
                    THEN rem.generation ELSE loc.generation
           time == IF loc.updateTime # rem.updateTime
                     THEN Max(Max(loc.updateTime, 0), Max(rem.updateTime, 0))
                     ELSE loc.updateTime IN
       [diff |-> NoDiff,
        loc |-> [loc EXCEPT !.generation = gen, !.updateTime = time],
        rem |-> [rem EXCEPT !.updateTime = time]]

\* A getSessionDiff that marks the local session uninitialised when it finds
\* no saved session.
getSessionDiffResetsLocal(loc, rem) ==
  IF loc.generation < 0
    THEN [diff |-> [NoDiff EXCEPT !.major = Msg("", 0, "Local browser not initialized yet"),
                                  !.err = TRUE],
          loc |-> loc, rem |-> rem]
  ELSE IF Len(loc.tabs) < 1
    THEN [diff |-> [NoDiff EXCEPT !.major = Msg("", 0, "No browser tabs found"),
                                  !.err = TRUE],
          loc |-> [loc EXCEPT !.generation = -1], rem |-> rem]
  ELSE IF rem.generation < 0
    THEN [diff |-> [NoDiff EXCEPT !.major = Msg("", 0, "No saved session found"),
                                  !.err = TRUE],
          loc |-> [loc EXCEPT !.generation = -1], rem |-> rem]
  ELSE IF Len(rem.tabs) < 1
    THEN [diff |-> [NoDiff EXCEPT !.major = Msg("", 0, "No saved tabs found")],
          loc |-> loc, rem |-> [rem EXCEPT !.generation = -1]]
  ELSE CompareSessions(loc, rem, getTabsetDiff(loc.tabs, rem.tabs))

\* getSessionDiff(loc, rem): the diff and both sessions as the call leaves them.
getSessionDiff(loc, rem) ==
  IF loc.generation < 0
    THEN [diff |-> [NoDiff EXCEPT !.major = Msg("", 0, "Local browser not initialized yet"),
                                  !.err = TRUE],
          loc |-> loc, rem |-> rem]
  ELSE IF Len(loc.tabs) < 1
    THEN [diff |-> [NoDiff EXCEPT !.major = Msg("", 0, "No browser tabs found"),
                                  !.err = TRUE],
          loc |-> [loc EXCEPT !.generation = -1], rem |-> rem]
  ELSE IF rem.generation < 0
    THEN [diff |-> [NoDiff EXCEPT !.major = Msg("", 0, "No saved session found"),
                                  !.err = TRUE],
          loc |-> loc, rem |-> rem]
  ELSE IF Len(rem.tabs) < 1
    THEN [diff |-> [NoDiff EXCEPT !.major = Msg("", 0, "No saved tabs found")],
          loc |-> loc, rem |-> [rem EXCEPT !.generation = -1]]
  ELSE CompareSessions(loc, rem, getTabsetDiff(loc.tabs, rem.tabs))

\* ---------------------------------------------------------- program state

VARIABLES
  \* TabberClass
  uninitialized_, initialized_, remoteSession_, localSession_,
  pending_update_, sync_in_progess_, save_in_progess_, options_,
  status_, context_,
  \* tabber.js: the global debug output control
  debug,
  \* SyncPhaseHandler
  change_count_, pending_changes, completionCallback, stepCallback,
  stepCallbackContext,
  \* chrome: calls whose callback has not run yet, change events not yet
  \* delivered, chrome.storage.sync and chrome.storage.local
  inflight, notifs, store, localStore,
  \* the page's timers: those setTimeout armed that neither fired nor were
  \* cleared
  timers,
  \* the stand-alone client of the phase sequencer
  client,
  \* the stand-alone user of TabberSession and getSessionDiff: its last call
  bench,
  \* history: what the last handler did, and how many handlers of each kind ran
  log, count

vars ==
  <<uninitialized_, initialized_, remoteSession_, localSession_,
    pending_update_, sync_in_progess_, save_in_progess_, options_,
    status_, context_, debug, change_count_, pending_changes,
    completionCallback, stepCallback, stepCallbackContext, inflight, notifs,
    store, localStore, timers, client, bench, log, count>>

\* The state as one record, so that a handler is an operator from state to state.
Cur ==
  [uninitialized_ |-> uninitialized_, initialized_ |-> initialized_,
   remoteSession_ |-> remoteSession_, localSession_ |-> localSession_,
   pending_update_ |-> pending_update_, sync_in_progess_ |-> sync_in_progess_,
   save_in_progess_ |-> save_in_progess_, options_ |-> options_,
   status_ |-> status_, context_ |-> context_, debug |-> debug,
   change_count_ |-> change_count_, pending_changes |-> pending_changes,
   completionCallback |-> completionCallback, stepCallback |-> stepCallback,
   stepCallbackContext |-> stepCallbackContext,
   inflight |-> inflight, notifs |-> notifs, store |-> store,
   localStore |-> localStore, timers |-> timers, client |-> client, bench |-> bench, log |-> log,
   count |-> count,
   exc |-> FALSE]

Commit(s) ==
  /\ uninitialized_' = s.uninitialized_
  /\ initialized_' = s.initialized_
  /\ remoteSession_' = s.remoteSession_
  /\ localSession_' = s.localSession_
  /\ pending_update_' = s.pending_update_
  /\ timers' = s.timers
  /\ sync_in_progess_' = s.sync_in_progess_
  /\ save_in_progess_' = s.save_in_progess_
  /\ options_' = s.options_
  /\ status_' = s.status_
  /\ context_' = s.context_
  /\ debug' = s.debug
  /\ change_count_' = s.change_count_
  /\ pending_changes' = s.pending_changes
  /\ completionCallback' = s.completionCallback
  /\ stepCallback' = s.stepCallback
  /\ stepCallbackContext' = s.stepCallbackContext
  /\ inflight' = s.inflight
  /\ notifs' = s.notifs
  /\ store' = s.store
  /\ localStore' = s.localStore
  /\ client' = s.client
  /\ bench' = s.bench
  /\ log' = [s.log EXCEPT !.threw = s.exc]
  /\ count' = s.count

\* --------------------------------------------------------------- constants

\* TabberClass.mode
MANUAL == "manual"
AUTOSTART == "autostart"
AUTOSAVE == "autosave"
AUTOSYNC == "autosync"
Modes == {MANUAL, AUTOSTART, AUTOSAVE, AUTOSYNC}

\* TabberClass.state
ERR == -1
OK == 0
WARN == 1

\* TabberClass.constant_
sync_delay == 4000
urgent_sync_delay == 500

\* change_count_ before the first initHandler (undefined, and NaN after ++).
NoCount == -1
NoCtx == -1

\* ------------------------------------------------------------ chrome calls

\* A closure of the restore pipeline that outlives the handler that made it:
\* scanRemoteTabs/onTabUpdate (remTabIndex, rem) and continueRehomingTabs/
\* acceptNewWindow (locIdByRemId, rem).  rem is the session object the closure
\* captured: the controller's remoteSession_ while live, else the object as it
\* was when the controller replaced it.  pipe numbers the pipeline run.
Closure(remTabIndex, locIdByRemId, pipe) ==
  [remTabIndex |-> remTabIndex, locIdByRemId |-> locIdByRemId, pipe |-> pipe,
   live |-> TRUE, rem |-> NewSession(-1)]

NoClosure == [Closure(-1, {}, 0) EXCEPT !.live = FALSE]

EmptyRec == [key \in {} |-> 0]

\* A chrome call waiting for its callback.  op is the chrome function, cont the
\* callback, phase and pipe the restore phase and run that submitted it, arg a
\* tab id or index, clo the callback's closure, rec the record written.
Call(op, cont, phase, pipe, arg, clo, rec) ==
  [op |-> op, cont |-> cont, phase |-> phase, pipe |-> pipe, arg |-> arg,
   clo |-> clo, rec |-> rec]

Submit(s, call) == [s EXCEPT !.inflight = @ (+) SetToBag({call})]

\* What chrome passes to a step's callback.
TabArgs(tab) == [kind |-> "tab", tab |-> tab]
NoArgs == [kind |-> "none", tab |-> HoleTab]
NullArgs == [kind |-> "null", tab |-> HoleTab]

Throw(s) == [s EXCEPT !.exc = TRUE]

\* The remote session a closure reads.
RemOf(s, clo) == IF clo.live THEN s.remoteSession_ ELSE clo.rem

\* tbr.remoteSession_ = sess: closures that captured the old object keep it.
Freeze(clo, old) == IF clo.live THEN [clo EXCEPT !.live = FALSE, !.rem = old] ELSE clo

\* The calls in flight once every live closure among them was frozen on old.
FreezeCalls(b, old) ==
  LET S == BagToSet(b)
      F(c) == [c EXCEPT !.clo = Freeze(c.clo, old)] IN
  [y \in {F(x) : x \in S} |->
     LET pre == {x \in S : F(x) = y}
         RECURSIVE Sum(_)
         Sum(T) == IF T = {} THEN 0
                   ELSE LET x == CHOOSE x \in T : TRUE IN b[x] + Sum(T \ {x})
     IN Sum(pre)]

ReplaceRemote(s, sess) ==
  LET old == s.remoteSession_ IN
  [s EXCEPT !.remoteSession_ = sess,
            !.stepCallback = [@ EXCEPT !.clo = Freeze(@, old)],
            !.inflight = FreezeCalls(@, old)]

\* ------------------------------------------------ window affinity matcher

RECURSIVE SortedSeq(_)
SortedSeq(S) ==
  IF S = {} THEN <<>>
  ELSE LET m == CHOOSE x \in S : \A y \in S : x <= y IN <<m>> \o SortedSeq(S \ {m})

WindowTabs(tabs, wid) == SelectSeq(tabs, LAMBDA tab : tab.windowId = wid)

TabPairScore(tab1, tab2) ==
  IF tab1.url = tab2.url
    THEN 5 + (IF tab1.index = tab2.index THEN 3 ELSE 0)
           + (IF tab1.active = tab2.active THEN 1 ELSE 0)
    ELSE 0

RECURSIVE SumScores(_, _, _, _)
SumScores(tabs1, tabs2, t1, t2) ==
  IF t1 > Len(tabs1) THEN 0
  ELSE IF t2 > Len(tabs2) THEN SumScores(tabs1, tabs2, t1 + 1, 1)
  ELSE TabPairScore(tabs1[t1], tabs2[t2]) + SumScores(tabs1, tabs2, t1, t2 + 1)

getWindowScore_(tabs1, tabs2) == SumScores(tabs1, tabs2, 1, 1)

\* mapScores: one edge per (local window, remote window), local windows in the
\* outer loop, both in ascending id order.
MapScores(locTabs, remTabs) ==
  LET lw == SortedSeq({locTabs[t].windowId : t \in DOMAIN locTabs})
      rw == SortedSeq({remTabs[t].windowId : t \in DOMAIN remTabs}) IN
  [i \in 1..(Len(lw) * Len(rw)) |->
     LET l == lw[((i - 1) \div Len(rw)) + 1]
         r == rw[((i - 1) % Len(rw)) + 1] IN
     [lwid |-> l, rwid |-> r,
      score |-> getWindowScore_(WindowTabs(locTabs, l), WindowTabs(remTabs, r))]]

\* A sort with the comparator's result inverted: lowest score first.
RECURSIVE InsertByScoreAscending(_, _)
InsertByScoreAscending(sorted, e) ==
  IF sorted = <<>> THEN <<e>>
  ELSE IF Head(sorted).score <= e.score
    THEN <<Head(sorted)>> \o InsertByScoreAscending(Tail(sorted), e)
  ELSE <<e>> \o sorted

\* Array.prototype.sort with the comparator of the source: highest score
\* first, equal scores in their original order.
RECURSIVE InsertByScore(_, _)
InsertByScore(sorted, e) ==
  IF sorted = <<>> THEN <<e>>
  ELSE IF Head(sorted).score >= e.score
    THEN <<Head(sorted)>> \o InsertByScore(Tail(sorted), e)
  ELSE <<e>> \o sorted

RECURSIVE SortByScore(_)
SortByScore(edges) ==
  IF edges = <<>> THEN <<>>
  ELSE InsertByScore(SortByScore(SubSeq(edges, 1, Len(edges) - 1)), edges[Len(edges)])

\* The greedy walk: an edge is taken when neither of its windows is matched.
\* The result is locIdByRemId as a set of <<rwid, lwid>> pairs.
RECURSIVE GreedyMatch(_, _, _)
GreedyMatch(sorted, mi, accepted) ==
  IF mi > Len(sorted) THEN accepted
  ELSE LET e == sorted[mi] IN
       IF (\A p \in accepted : p[1] # e.rwid /\ p[2] # e.lwid)
         THEN GreedyMatch(sorted, mi + 1, accepted \cup {<<e.rwid, e.lwid>>})
         ELSE GreedyMatch(sorted, mi + 1, accepted)

MatchWindows(locTabs, remTabs) ==
  GreedyMatch(SortByScore(MapScores(locTabs, remTabs)), 1, {})

\* locIdByRemId[rwid], NoWin when undefined.
LocIdByRemId(map, rwid) ==
  IF \E p \in map : p[1] = rwid THEN (CHOOSE p \in map : p[1] = rwid)[2] ELSE NoWin

SetLocIdByRemId(map, rwid, lwid) == {p \in map : p[1] # rwid} \cup {<<rwid, lwid>>}

\* ------------------------------------------------------- status and timer

setStatus_(s, state, msg) == [s EXCEPT !.status_ = [state |-> state, msg |-> msg]]

\* An armed timer: its id, its delay, and the number of tab notifications
\* the controller had received when it was armed.
Timer(id, delay, after) == [id |-> id, delay |-> delay, after |-> after]

\* clearTimeout(id): no effect when no armed timer has the id.
clearTimeout(s, id) == [s EXCEPT !.timers = {tm \in @ : tm.id # id}]

\* setTimeout(updateLocalSessionFromBrowser_, delay), its id assigned to
\* pending_update_.  Ids are handles: the new one is the least id no armed
\* timer has.
setTimeout(s, delay) ==
  LET id == CHOOSE n \in 1..(Cardinality(s.timers) + 1) :
              /\ \A tm \in s.timers : tm.id # n
              /\ \A m \in 1..(n - 1) : \E tm \in s.timers : tm.id = m IN
  [s EXCEPT !.timers = @ \cup {Timer(id, delay, s.count.tabEvents)},
            !.pending_update_ = id]

\* The delay scheduleLocalSessionUpdate_ uses when asked for delay.
ScheduleDelay(s, delay) ==
  IF s.localSession_.generation < 2 /\ delay > urgent_sync_delay
    THEN urgent_sync_delay ELSE delay

\* A scheduleLocalSessionUpdate_ that leaves the pending timer armed.
scheduleLocalSessionUpdateNoClear_(s, delay) ==
  IF s.sync_in_progess_ THEN s
  ELSE setTimeout(setStatus_(s, WARN, Msg("", 0, "Local change detected - update pending")),
                  ScheduleDelay(s, delay))

\* scheduleLocalSessionUpdate_(delay).  pending_update_ is the id of the last
\* timer armed, 0 (false) before the first.
scheduleLocalSessionUpdate_(s, delay) ==
  IF s.sync_in_progess_ THEN clearTimeout(s, s.pending_update_)
  ELSE setTimeout(setStatus_(clearTimeout(s, s.pending_update_), WARN,
                             Msg("", 0, "Local change detected - update pending")),
                  ScheduleDelay(s, delay))

\* ---------------------------------------------------------- phase handler

Callback(fn, pipe) == [fn |-> fn, pipe |-> pipe]
StepCallback(fn, clo) == [fn |-> fn, clo |-> clo]
NoStepCallback == StepCallback("", NoClosure)

initHandler(s, callback) ==
  [s EXCEPT !.change_count_ = 0, !.pending_changes = TRUE,
            !.completionCallback = callback]

setDoStepCallback(s, callback, ctx) ==
  [s EXCEPT !.stepCallback = callback, !.stepCallbackContext = ctx]

\* doStep(chromeFunction, args): count the step, then make the call.
doStep(s, call) ==
  Submit([s EXCEPT !.change_count_ = IF @ = NoCount THEN NoCount ELSE @ + 1], call)

RECURSIVE DoSteps(_, _)
DoSteps(s, calls) ==
  IF calls = <<>> THEN s ELSE DoSteps(doStep(s, Head(calls)), Tail(calls))

\* A phase of the restore pipeline has finished and next is about to run: the
\* tabs of the two sessions at that moment.
LogPhase(s, next) ==
  [s EXCEPT !.log.phases =
     Append(@, [next |-> next, loc |-> s.localSession_.tabs,
                rem |-> s.remoteSession_.tabs])]

RECURSIVE changeDone(_, _)
RECURSIVE changeDoneCount(_)
RECURSIVE changeDoneComplete(_)
RECURSIVE finalize(_)
RECURSIVE scanRemoteTabs(_, _, _)
RECURSIVE syncBrowserDeletes_(_)
RECURSIVE syncBrowserChromeMapWindows_(_)
RECURSIVE continueRehomingTabs(_, _, _)
RECURSIVE syncBrowserChromeMove_(_, _)
RECURSIVE syncBrowserSetActive_(_)

\* ------------------------------------------------------- restore pipeline

InsertAt(seq, pos, e) == SubSeq(seq, 1, pos - 1) \o <<e>> \o SubSeq(seq, pos, Len(seq))
RemoveAt(seq, pos) == SubSeq(seq, 1, pos - 1) \o SubSeq(seq, pos + 1, Len(seq))
Min(a, b) == IF a <= b THEN a ELSE b

SetMax(S) == CHOOSE x \in S : \A y \in S : y <= x

\* An onTabUpdate that resumes the scan without recording what chrome
\* answered.
onTabUpdateNoRecord(s, clo, ctx, args) ==
  IF (ctx + 1) \notin DOMAIN s.localSession_.tabs \/ args.kind # "tab" THEN Throw(s)
  ELSE scanRemoteTabs(s, clo, clo.remTabIndex + 1)

\* onTabUpdate(ctx, tabArray): the step callback of a tab creation.
onTabUpdate(s, clo, ctx, args) ==
  LET loc == s.localSession_ IN
  IF (ctx + 1) \notin DOMAIN loc.tabs \/ args.kind # "tab" THEN Throw(s)
  ELSE scanRemoteTabs(
         [s EXCEPT !.localSession_.tabs[ctx + 1] =
                     [@ EXCEPT !.index = args.tab.index, !.id = args.tab.id,
                               !.windowId = args.tab.windowId]],
         clo, clo.remTabIndex + 1)

\* scanRemoteTabs() entered with remTabIndex already incremented to i.
scanRemoteTabs(s, clo, i) ==
  LET loc == s.localSession_
      rem == RemOf(s, clo) IN
  IF i >= Len(rem.tabs) THEN finalize(s)
  ELSE IF rem.tabs[i + 1] = HoleTab THEN Throw(s)
  ELSE IF i >= Len(loc.tabs)
          \/ Truthy(getTabsDiff(loc.tabs[i + 1], rem.tabs[i + 1]).major)
    THEN LET matches == {tt \in (i + 2)..Len(loc.tabs) :
                           ~Truthy(getTabsDiff(loc.tabs[tt], rem.tabs[i + 1]).major)} IN
         IF matches # {}
           THEN LET tt == CHOOSE x \in matches : \A y \in matches : x <= y IN
                scanRemoteTabs(
                  [s EXCEPT !.localSession_.tabs =
                              InsertAt(RemoveAt(loc.tabs, tt), i + 1, loc.tabs[tt])],
                  clo, i + 1)
           ELSE LET newTab == Tab(rem.tabs[i + 1].url, i, NoId, NoWin,
                                  rem.tabs[i + 1].active)
                    s1 == [s EXCEPT !.localSession_.tabs =
                                      InsertAt(loc.tabs, Min(i, Len(loc.tabs)) + 1, newTab)]
                    s2 == setDoStepCallback(
                            s1, StepCallback("onTabUpdate", [clo EXCEPT !.remTabIndex = i]), i) IN
                doStep(s2, Call("tabs.create", "changeDone", 1, clo.pipe, newTab,
                                NoClosure, EmptyRec))
  ELSE scanRemoteTabs(s, clo, i + 1)

\* syncBrowserCreatesAndMoves_() for pipeline run pipe.
syncBrowserCreatesAndMoves_(s, pipe) ==
  scanRemoteTabs(initHandler(s, Callback("syncBrowserDeletes_", pipe)),
                 Closure(-1, {}, pipe), 0)

syncBrowserDeletes_(s) ==
  LET pipe == s.completionCallback.pipe
      loc == s.localSession_
      rem == s.remoteSession_
      s1 == initHandler(s, Callback("syncBrowserChromeMapWindows_", pipe)) IN
  IF Len(loc.tabs) > Len(rem.tabs)
    THEN LET removes == [k \in 1..(Len(loc.tabs) - Len(rem.tabs)) |->
                           Call("tabs.remove", "changeDone", 2, pipe,
                                loc.tabs[Len(rem.tabs) + k], NoClosure, EmptyRec)]
             s2 == DoSteps(s1, removes) IN
         finalize([s2 EXCEPT !.localSession_.tabs = SubSeq(loc.tabs, 1, Len(rem.tabs))])
    ELSE finalize(s1)

syncBrowserChromeMapWindows_(s) ==
  LET pipe == s.completionCallback.pipe
      loc == s.localSession_
      rem == s.remoteSession_ IN
  \* A windowId that is undefined becomes the key "undefined", and the score
  \* loop reads the window list at Number("undefined").
  IF /\ loc.tabs # <<>> /\ rem.tabs # <<>>
     /\ \E tab \in Range(loc.tabs) \cup Range(rem.tabs) : tab.windowId = NoWin
    THEN Throw(s)
  ELSE continueRehomingTabs([s EXCEPT !.context_ = 0],
                            Closure(-1, MatchWindows(loc.tabs, rem.tabs), pipe), 0)

\* continueRehomingTabs() from position t = tbr.context_.
continueRehomingTabs(s, clo, t) ==
  LET loc == s.localSession_
      rem == RemOf(s, clo) IN
  IF t >= Len(loc.tabs)
    THEN syncBrowserChromeMove_(LogPhase(s, "syncBrowserChromeMove_"), clo.pipe)
  ELSE IF t >= Len(rem.tabs) THEN Throw(s)
  ELSE LET lwid == LocIdByRemId(clo.locIdByRemId, rem.tabs[t + 1].windowId) IN
       IF lwid = NoWin
         THEN Submit([s EXCEPT !.context_ = t + 1],
                     Call("windows.create", "acceptNewWindow", 3, clo.pipe,
                          loc.tabs[t + 1], clo, EmptyRec))
       ELSE IF loc.tabs[t + 1].windowId # lwid
         THEN LET moved == [loc.tabs[t + 1] EXCEPT !.windowId = lwid] IN
              continueRehomingTabs(
                Submit([s EXCEPT !.localSession_.tabs[t + 1] = moved],
                       Call("tabs.move", "", 3, clo.pipe, moved, NoClosure, EmptyRec)),
                clo, t + 1)
       ELSE continueRehomingTabs(s, clo, t + 1)

\* acceptNewWindow(newWindow): the callback of chrome.windows.create.
acceptNewWindow(s, clo, newWindowId) ==
  LET ti == s.context_ - 1
      loc == s.localSession_
      rem == RemOf(s, clo) IN
  IF (ti + 1) \notin DOMAIN loc.tabs \/ (ti + 1) \notin DOMAIN rem.tabs THEN Throw(s)
  ELSE continueRehomingTabs(
         [s EXCEPT !.localSession_.tabs[ti + 1].windowId = newWindowId],
         [clo EXCEPT !.locIdByRemId =
            SetLocIdByRemId(@, rem.tabs[ti + 1].windowId, newWindowId)],
         s.context_)

syncBrowserChromeMove_(s, pipe) ==
  LET loc == s.localSession_
      rem == s.remoteSession_
      n == Min(Len(loc.tabs), Len(rem.tabs))
      s1 == initHandler(s, Callback("syncBrowserSetActive_", pipe))
      moves == [t \in 1..n |->
                  Call("tabs.move", "changeDone", 4, pipe,
                       [loc.tabs[t] EXCEPT !.index = rem.tabs[t].index],
                       NoClosure, EmptyRec)]
      s2 == DoSteps(s1, moves) IN
  \* rem.tabs[t] is undefined beyond the remote tabs.
  IF Len(loc.tabs) > Len(rem.tabs) THEN Throw(s2) ELSE finalize(s2)

\* A syncBrowserSetActive_ that leaves the active flags of the local session.
syncBrowserSetActiveNoCopy_(s) ==
  LET pipe == s.completionCallback.pipe
      loc == s.localSession_
      rem == s.remoteSession_
      n == Min(Len(loc.tabs), Len(rem.tabs))
      s1 == initHandler(s, Callback("phaseDone", pipe))
      updates == [t \in 1..n |->
                    Call("tabs.update", "changeDone", 5, pipe,
                         [loc.tabs[t] EXCEPT !.active = rem.tabs[t].active],
                         NoClosure, EmptyRec)]
      s2 == DoSteps(s1, updates) IN
  IF Len(loc.tabs) > Len(rem.tabs) THEN Throw(s2) ELSE finalize(s2)

syncBrowserSetActive_(s) ==
  LET pipe == s.completionCallback.pipe
      loc == s.localSession_
      rem == s.remoteSession_
      n == Min(Len(loc.tabs), Len(rem.tabs))
      s1 == initHandler(s, Callback("phaseDone", pipe))
      tabs == [t \in 1..Len(loc.tabs) |->
                 IF t <= n THEN [loc.tabs[t] EXCEPT !.active = rem.tabs[t].active]
                 ELSE loc.tabs[t]]
      updates == [t \in 1..n |->
                    Call("tabs.update", "changeDone", 5, pipe, tabs[t],
                         NoClosure, EmptyRec)]
      s2 == DoSteps([s1 EXCEPT !.localSession_.tabs = tabs], updates) IN
  IF Len(loc.tabs) > Len(rem.tabs) THEN Throw(s2) ELSE finalize(s2)

\* phaseDone(): the completion of the last phase.
phaseDone(s) ==
  scheduleLocalSessionUpdate_([s EXCEPT !.sync_in_progess_ = FALSE], sync_delay)

\* The stand-alone client's callbacks.
onComplete(s) == [s EXCEPT !.client.onCompleteCalls = @ + 1]
onStep(s) == [s EXCEPT !.client.stepCalls = @ + 1]

\* changeDone(arglist): the step callback first, ...
changeDone(s, args) ==
  LET cb == s.stepCallback
      ctx == s.stepCallbackContext
      cleared == [s EXCEPT !.stepCallback = NoStepCallback,
                           !.stepCallbackContext = NoCtx] IN
  changeDoneCount(IF cb.fn = "onTabUpdate" THEN onTabUpdate(cleared, cb.clo, ctx, args)
                  ELSE IF cb.fn = "onStep" THEN onStep(cleared)
                  ELSE s)

\* ... then the count goes down, unless the step callback threw, ...
changeDoneCount(s) ==
  IF s.exc THEN s
  ELSE changeDoneComplete(IF s.change_count_ > 0
                            THEN [s EXCEPT !.change_count_ = @ - 1] ELSE s)

\* ... and the completion callback runs when nothing is left.
changeDoneComplete(s) ==
  IF s.change_count_ = 0 /\ ~s.pending_changes
    THEN LET fn == s.completionCallback.fn IN
         IF fn = "syncBrowserDeletes_"
           THEN syncBrowserDeletes_(LogPhase(s, fn))
         ELSE IF fn = "syncBrowserChromeMapWindows_"
           THEN syncBrowserChromeMapWindows_(LogPhase(s, fn))
         ELSE IF fn = "syncBrowserSetActive_"
           THEN syncBrowserSetActive_(LogPhase(s, fn))
         ELSE IF fn = "phaseDone" THEN phaseDone(LogPhase(s, fn))
         ELSE onComplete(s)
    ELSE s

\* A finalize that does not look at the count of outstanding steps.
finalizeEager(s) == changeDone([s EXCEPT !.pending_changes = FALSE], NullArgs)

\* finalize()
finalize(s) ==
  LET s1 == [s EXCEPT !.pending_changes = FALSE] IN
  IF s1.change_count_ = 0 THEN changeDone(s1, NullArgs) ELSE s1

\* -------------------------------------------------------------- history

\* What a handler did, for the properties that speak of a call or of a
\* reconcile run: runs holds one record per doSync_ run of the last handler,
\* starts one per saveLocalToRemote / syncBrowserFromRemote call, options one
\* per setOptions call, writes one per callback of chrome.storage.sync.set,
\* refreshes one per accepted refresh of the local session, phases one per
\* phase of the restore pipeline that finished.
NoLog ==
  [runs |-> <<>>, starts |-> <<>>, options |-> <<>>, writes |-> <<>>,
   refreshes |-> <<>>, phases |-> <<>>, rejected |-> {}, threw |-> FALSE]

\* A handler is entered: the history starts anew.
Enter(s) == [s EXCEPT !.log = NoLog]

LogRun(s, run) == [s EXCEPT !.log.runs = Append(@, run)]

\* The program's own state, without the history.
Core(s) == [s EXCEPT !.log = NoLog, !.count = [k \in DOMAIN s.count |-> 0]]

\* A call of a pipeline's entry point: before is the state at the call, after
\* the state it left.
LogStart(before, after, pipe, origin) ==
  [after EXCEPT !.log.starts =
     Append(@, [pipe |-> pipe, origin |-> origin, mode |-> before.options_.mode,
                saveBusy |-> before.save_in_progess_,
                syncBusy |-> before.sync_in_progess_,
                remGen |-> before.remoteSession_.generation,
                remTabs |-> Len(before.remoteSession_.tabs),
                remValid |-> isSessionValid(before.remoteSession_),
                initialized |-> before.initialized_,
                statusAfter |-> after.status_.state,
                started |-> Core(after) # Core(before)])]

\* currentTabs accepted a refresh: the generation it found and the one it left.
LogRefresh(before, after) ==
  [after EXCEPT !.log.refreshes =
     Append(@, [genBefore |-> before.localSession_.generation,
                genAfter |-> after.localSession_.generation,
                syncBusy |-> before.sync_in_progess_])]

\* ------------------------------------------------------------- controller

QueryCall(cont, pipe) == Call("tabs.query", cont, 0, pipe, HoleTab, NoClosure, EmptyRec)

\* syncLocalToBrowser_(contFunc) and updateLocalSessionFromBrowser_(): both
\* ask chrome for the tabs; the callback is cont.
syncLocalToBrowser_(s, cont, pipe) == Submit(s, QueryCall(cont, pipe))

updateLocalSessionFromBrowser_(s) == Submit(s, QueryCall("currentTabs", 0))

\* A saveLocalToRemote without the test of save_in_progess_.
saveLocalToRemoteUnguarded(s, origin) ==
  LogStart(s, syncLocalToBrowser_([s EXCEPT !.save_in_progess_ = TRUE],
                                  "saveLocalToRemote_", 0),
           "save", origin)

\* saveLocalToRemote()
saveLocalToRemote(s, origin) ==
  LET after == IF s.save_in_progess_ THEN s
               ELSE syncLocalToBrowser_([s EXCEPT !.save_in_progess_ = TRUE],
                                        "saveLocalToRemote_", 0) IN
  LogStart(s, after, "save", origin)

syncBrowserFromRemote(s, origin) ==
  LET rem == s.remoteSession_
      pipe == s.count.pipes + 1
      after == IF rem.generation < 0 THEN s
               ELSE IF Len(rem.tabs) < 1 THEN s
               ELSE syncLocalToBrowser_(
                      [s EXCEPT !.sync_in_progess_ = TRUE, !.count.pipes = pipe],
                      "syncBrowserCreatesAndMoves_", pipe) IN
  LogStart(s, after, "restore", origin)

\* A saveLocalToRemote_ that raises the generation only from below the
\* remote one.
saveLocalToRemoteNoBump_(s) ==
  LET loc == s.localSession_
      rem == s.remoteSession_
      gen == IF loc.generation < rem.generation
               THEN rem.generation + 1 ELSE loc.generation
      s1 == [s EXCEPT !.localSession_.generation = gen] IN
  Submit(s1, Call("storage.sync.set", "", 0, 0, HoleTab, NoClosure,
                  toSync(s1.localSession_)))

\* saveLocalToRemote_(): pick the generation, flatten, write.
saveLocalToRemote_(s) ==
  LET loc == s.localSession_
      rem == s.remoteSession_
      gen == IF loc.generation <= rem.generation
               THEN rem.generation + 1 ELSE loc.generation
      s1 == [s EXCEPT !.localSession_.generation = gen] IN
  Submit(s1, Call("storage.sync.set", "", 0, 0, HoleTab, NoClosure,
                  toSync(s1.localSession_)))

\* Mode tests that doSync_ does not make: a save in every mode, a save on the
\* first sync, a restore in every automatic mode whether first or not.
ShouldAutoSaveAnyMode(mode, firstTime) == ~firstTime
ShouldAutoSaveFirstTime(mode, firstTime) == (mode = AUTOSYNC \/ mode = AUTOSAVE)
ShouldAutoRestoreAlways(mode, firstTime) == mode \in {AUTOSYNC, AUTOSTART, AUTOSAVE}

\* The two mode tests of doSync_.
ShouldAutoSave(mode, firstTime) ==
  ~firstTime /\ (mode = AUTOSYNC \/ mode = AUTOSAVE)

ShouldAutoRestore(mode, firstTime) ==
  \/ mode = AUTOSYNC
  \/ (mode = AUTOSTART /\ firstTime)
  \/ (mode = AUTOSAVE /\ firstTime)

\* A guess that takes the local side as newer only when it is strictly ahead.
GuessLocalIsNewerStrict(mode, firstTime, locGen, remGen) ==
  LET forceNewLocal == (mode = AUTOSAVE) /\ ~firstTime IN
  forceNewLocal \/ (locGen > remGen)

\* The guess doSync_ makes when the caller does not say which side changed.
GuessLocalIsNewer(mode, firstTime, locGen, remGen) ==
  LET forceNewLocal == (mode = AUTOSAVE) /\ ~firstTime IN
  forceNewLocal \/ (locGen >= remGen)

RECURSIVE doSync_(_, _)

\* doSync_ sets the status from the diff report.
StatusFromDiff(s, diff) ==
  IF diff.threw THEN s
  ELSE IF Truthy(diff.major)
    THEN setStatus_(s, IF diff.err THEN ERR ELSE WARN, diff.major)
  ELSE IF Truthy(diff.minor) THEN setStatus_(s, OK, diff.minor)
  ELSE setStatus_(s, OK, Msg("", 0, "Tabs saved"))

\* What a run of doSync_ saw: s is the state at entry, d getSessionDiff's answer.
RunRecord(s, given, d) ==
  LET mode == s.options_.mode
      firstTime == (s.localSession_.generation = 1) IN
  [given |-> given, mode |-> mode, firstTime |-> firstTime,
   locGen |-> s.localSession_.generation,
   remGen |-> s.remoteSession_.generation,
   initialized |-> s.initialized_,
   localIsNewer |->
     IF given = "undefined"
       THEN GuessLocalIsNewer(mode, firstTime, s.localSession_.generation,
                              s.remoteSession_.generation)
       ELSE given = "true",
   major |-> Truthy(d.diff.major), minor |-> Truthy(d.diff.minor),
   err |-> d.diff.err,
   uninit |-> (d.rem.generation < 0) \/ (d.loc.generation < 0),
   locValid |-> isSessionValid(d.loc), remValid |-> isSessionValid(d.rem),
   remThrows |-> isSessionValidThrows(d.rem),
   calledSave |-> FALSE, calledRestore |-> FALSE, recursed |-> FALSE]

\* A decision that does not wait for the sessions to be initialised.
DecideNoDefer(s, run, threw) ==
  IF threw THEN Throw(LogRun(s, run))
  ELSE IF ~run.locValid \/ ~(run.major \/ run.minor) THEN LogRun(s, run)
  ELSE IF run.localIsNewer
    THEN IF ShouldAutoSave(run.mode, run.firstTime)
           THEN saveLocalToRemote(LogRun(s, [run EXCEPT !.calledSave = TRUE]), "doSync_")
           ELSE LogRun(s, run)
  ELSE IF run.remThrows THEN Throw(LogRun(s, run))
  ELSE IF ~run.remValid
    THEN doSync_(LogRun(s, [run EXCEPT !.recursed = TRUE]), "true")
  ELSE IF ShouldAutoRestore(run.mode, run.firstTime)
    THEN syncBrowserFromRemote(LogRun(s, [run EXCEPT !.calledRestore = TRUE]), "doSync_")
    ELSE LogRun(s, run)

\* The decision of doSync_, once the status is set: s is the state then, run
\* what the run saw.
Decide(s, run, threw) ==
  IF threw THEN Throw(LogRun(s, run))
  ELSE IF run.uninit \/ ~run.locValid \/ ~(run.major \/ run.minor) THEN LogRun(s, run)
  ELSE IF run.localIsNewer
    THEN IF ShouldAutoSave(run.mode, run.firstTime)
           THEN saveLocalToRemote(LogRun(s, [run EXCEPT !.calledSave = TRUE]), "doSync_")
           ELSE LogRun(s, run)
  ELSE IF run.remThrows THEN Throw(LogRun(s, run))
  ELSE IF ~run.remValid
    THEN doSync_(LogRun(s, [run EXCEPT !.recursed = TRUE]), "true")
  ELSE IF ShouldAutoRestore(run.mode, run.firstTime)
    THEN syncBrowserFromRemote(LogRun(s, [run EXCEPT !.calledRestore = TRUE]), "doSync_")
    ELSE LogRun(s, run)

\* doSync_ after its call of getSessionDiff, which answered d.
Reconcile(s, given, d) ==
  Decide(StatusFromDiff([s EXCEPT !.localSession_ = d.loc, !.remoteSession_ = d.rem],
                        d.diff),
         RunRecord(s, given, d), d.diff.threw)

\* doSync_(localIsNewer); given is "true", "false" or "undefined".
doSync_(s, given) ==
  Reconcile(s, given, getSessionDiff(s.localSession_, s.remoteSession_))

\* The callback of updateLocalSessionFromBrowser_'s tab query; t is the clock.
currentTabs(s, tabs, t) ==
  LET s1 == LogRefresh(s, [s EXCEPT !.localSession_ = Refreshed(@, tabs, t)]) IN
  IF ~s1.initialized_
    THEN Submit(s1, Call("storage.sync.get", "onStorageGet", 0, 0, HoleTab,
                         NoClosure, EmptyRec))
    ELSE doSync_(s1, "undefined")

\* ---------------------------------------------------------- chrome.storage

\* A change event: the new value of every changed key; removed holds the keys
\* that were deleted (their newValue is undefined).
Change(vals, removed) == [vals |-> vals, removed |-> removed]

\* chrome.storage.onChanged fires when something changed and the listener is
\* registered by the time the event is raised.
Notify(s, change, listening) ==
  IF listening /\ (DOMAIN change.vals # {} \/ change.removed # {})
    THEN [s EXCEPT !.notifs = Append(@, change)]
    ELSE s

Restrict(f, S) == [x \in S |-> f[x]]

\* The store after set(rec), and the event it raises.
StoreSet(s, rec) ==
  LET changed == {k \in DOMAIN rec : k \notin DOMAIN s.store \/ s.store[k] # rec[k]}
      merged == [k \in DOMAIN s.store \cup DOMAIN rec |->
                   IF k \in DOMAIN rec THEN rec[k] ELSE s.store[k]] IN
  Notify([s EXCEPT !.store = merged], Change(Restrict(rec, changed), {}),
         s.initialized_)

\* The store after remove(keys), and the event it raises.  onStorageGet
\* registers the listener before the removal it asked for takes place.
StoreRemove(s, keys) ==
  LET gone == keys \cap DOMAIN s.store IN
  Notify([s EXCEPT !.store = Restrict(s.store, DOMAIN s.store \ gone)],
         Change(EmptyRec, gone), TRUE)

\* changeObj of onChromeStorageChange_: a removed key maps to undefined.
ChangeObj(change) ==
  [k \in DOMAIN change.vals \cup change.removed |->
     IF k \in DOMAIN change.vals THEN change.vals[k]
     ELSE IF IsTabKey(k) THEN HoleTab ELSE NoTime]

\* The callback of chrome.storage.sync.set ran: before is the state it found,
\* after the state it left.
LogWrite(before, after, ok) ==
  [after EXCEPT !.log.writes =
     Append(@, [ok |-> ok, statusAfter |-> after.status_.state,
                remSame |-> after.remoteSession_ = before.remoteSession_,
                busyAfter |-> after.save_in_progess_])]

\* The outcome of the write: an error status, or the local session adopted as
\* the remote one.
WriteOutcome(s, ok, errMsg) ==
  IF ~ok THEN setStatus_(s, ERR, Msg("Unable to save session: ", 0, errMsg))
  ELSE ReplaceRemote(s, CloneSession(s.localSession_))

\* A callback that returns from the error branch, the flag still set.
onStorageSetStuck(s, ok, errMsg) ==
  LogWrite(s, [WriteOutcome(s, ok, errMsg) EXCEPT !.save_in_progess_ = ~ok], ok)

\* The callback of chrome.storage.sync.set.
onStorageSet(s, ok, errMsg) ==
  LogWrite(s, [WriteOutcome(s, ok, errMsg) EXCEPT !.save_in_progess_ = FALSE], ok)

\* finishInit_(items)
finishInit_(s, items) ==
  updateLocalSessionFromBrowser_(
    IF "options" \in DOMAIN items THEN [s EXCEPT !.options_ = items["options"]] ELSE s)

\* updateProps returned keys it did not accept.
LogRejected(s, keys) == [s EXCEPT !.log.rejected = @ \cup keys]

\* onStorageGet after updateProps answered r: drop the obsolete keys, reconcile.
AdoptFetched(s, r) ==
  doSync_(LogRejected(IF r.obsoleteKeys # {} THEN StoreRemove(s, r.obsoleteKeys) ELSE s,
                      r.obsoleteKeys),
          "undefined")

\* The end of onStorageGet: not reached when doSync_ threw.
CompleteInit(s) == IF s.exc THEN s ELSE [s EXCEPT !.initialized_ = TRUE]

\* onStorageGet(obj)
onStorageGet(s, obj) ==
  LET r == updateProps(NewSession(0), obj) IN
  CompleteInit(AdoptFetched(ReplaceRemote(s, r.sess), r))

\* The end of onChromeStorageChange_: the options, if they changed.
AdoptOptions(s, change) ==
  IF s.exc THEN s
  ELSE IF "options" \in DOMAIN change.vals
    THEN doSync_([s EXCEPT !.options_ = change.vals["options"]], "undefined")
    ELSE s

\* onChromeStorageChange_ after updateProps answered r: the answer's obsolete
\* keys are not read; reconcile with the remote side as the one that changed.
AdoptChange(s, r) ==
  doSync_(LogRejected([s EXCEPT !.remoteSession_ = r.sess], r.obsoleteKeys), "false")

\* onChromeStorageChange_(changes, namespace)
onChromeStorageChange_(s, change) ==
  AdoptOptions(AdoptChange(s, updateProps(s.remoteSession_, ChangeObj(change))),
               change)

\* A config object: a field the caller left out is NoField; debug is "true"
\* or "false" for a truthy or falsy value.
NoField == "absent"
Config(mode, dbg) == [mode |-> mode, debug |-> dbg]

\* The mode part of setOptions: a recognised mode is stored and written to
\* chrome.storage.local, any other value raises an alert and is dropped.
setMode(s, mode) ==
  IF mode \in {AUTOSYNC, AUTOSTART, AUTOSAVE, MANUAL}
    THEN LET s1 == [s EXCEPT !.options_.mode = mode]
             rec == [k \in {"options"} |-> s1.options_] IN
         IF s.localStore = rec THEN s1
         ELSE Notify([s1 EXCEPT !.localStore = rec], Change(rec, {}), s.initialized_)
    ELSE s

\* The debug part of setOptions.
setDebug(s, dbg) ==
  IF dbg # NoField THEN [s EXCEPT !.debug = (dbg = "true")] ELSE s

\* A call of setOptions: before is the state at the call, after the state it left.
LogOptions(before, after, config) ==
  [after EXCEPT !.log.options =
     Append(@, [config |-> config,
                modeBefore |-> before.options_.mode,
                modeAfter |-> after.options_.mode,
                debugBefore |-> before.debug, debugAfter |-> after.debug,
                storedBefore |-> before.localStore,
                storedAfter |-> after.localStore])]

\* setOptions(config): the mode, if the config has one, then the debug flag,
\* if it has one.
setOptions(s, config) ==
  LogOptions(s, setDebug(IF config.mode # NoField THEN setMode(s, config.mode)
                         ELSE s,
                         config.debug),
             config)

\* onTabRemove_(tabId, remInfo)
onTabRemove_(s, isWindowClosing) ==
  scheduleLocalSessionUpdate_(s, IF isWindowClosing THEN urgent_sync_delay ELSE sync_delay)

\* onTabChange_()
onTabChange_(s) == scheduleLocalSessionUpdate_(s, sync_delay)

\* ------------------------------------------------------------ environment

\* What chrome.tabs.query can answer: one tab, two tabs in one window, two
\* tabs in two windows.
BrowserTabsets ==
  { <<Tab("a", 0, 1, 1, TRUE)>>,
    <<Tab("a", 0, 1, 1, TRUE), Tab("b", 1, 2, 1, FALSE)>>,
    <<Tab("a", 0, 1, 1, FALSE), Tab("b", 0, 2, 2, TRUE)>> }

\* The tabs of the sessions other devices save: one tab, two tabs in one
\* window, two tabs in two windows.
RemoteTabsets ==
  { <<Tab("b", 0, 7, 5, TRUE)>>,
    <<Tab("a", 0, 7, 5, FALSE), Tab("b", 1, 8, 5, TRUE)>>,
    <<Tab("a", 0, 7, 5, TRUE), Tab("b", 0, 8, 6, TRUE)>> }

SavedSessions ==
  { [description |-> "default", generation |-> g, updateTime |-> 1,
     tabs |-> tabs, numtabs |-> Len(tabs), extra |-> {}] :
      g \in 1..MaxRemoteGen, tabs \in RemoteTabsets }

\* What saveLocalToRemote_ writes when the popup asks for a save before the
\* first refresh: the session was never touched, its updateTime is false.
EarlySave ==
  toSync([NewSession(0) EXCEPT !.tabs = <<Tab("a", 0, 1, 1, TRUE)>>])

\* chrome.storage.sync at startup: empty, a session another device saved, or
\* the record of an early save of an earlier run.
InitialStores == {EmptyRec, EarlySave} \cup {toSync(sess) : sess \in SavedSessions}

\* chrome.storage.local at startup: empty, or the options saved earlier.
InitialLocalStores ==
  {EmptyRec} \cup {[k \in {"options"} |-> [mode |-> m]] : m \in Modes}

Times == 1..MaxTime

IdleClient ==
  [stage |-> "none", steps |-> 0, done |-> 0, onCompleteCalls |-> 0,
   stepCalls |-> 0, armed |-> 0, late |-> 0]

\* The last call of the stand-alone user of sessions: the sessions it passed
\* (loc, rem), the answer (diff; decoded and obsoleteKeys for updateProps on a
\* new session, parsed for fromSync), and the number of calls so far.
NoBench ==
  [op |-> "none", ops |-> 0, loc |-> NewSession(-1), rem |-> NewSession(-1),
   diff |-> NoDiff, decoded |-> NewSession(-1), parsed |-> NewSession(-1),
   obsoleteKeys |-> {}, edges |-> <<>>, map |-> {}, key |-> "", ok |-> FALSE]

\* The state the constructors leave, for a given content of the two stores.
Constructed(st, lst) ==
  /\ uninitialized_ = TRUE
  /\ initialized_ = FALSE
  /\ remoteSession_ = NewSession(-1)
  /\ localSession_ = NewSession(-1)
  /\ pending_update_ = 0
  /\ sync_in_progess_ = FALSE
  /\ save_in_progess_ = FALSE
  /\ options_ = [mode |-> AUTOSAVE]
  /\ status_ = [state |-> OK, msg |-> NoMsg]
  /\ context_ = 0
  /\ debug = FALSE
  /\ change_count_ = NoCount
  /\ pending_changes = FALSE
  /\ completionCallback = Callback("", 0)
  /\ stepCallback = NoStepCallback
  /\ stepCallbackContext = NoCtx
  /\ inflight = EmptyBag
  /\ notifs = <<>>
  /\ store = st
  /\ localStore = lst
  /\ timers = {}
  /\ client = IdleClient
  /\ bench = NoBench
  /\ log = NoLog
  /\ count = [ui |-> 0, env |-> 0, tabEvents |-> 0, queries |-> 0, pipes |-> 0]

Init == \E st \in InitialStores, lst \in InitialLocalStores : Constructed(st, lst)

\* The callback of call c runs: c is no longer outstanding.
Take(s, c) == [s EXCEPT !.inflight = @ (-) SetToBag({c})]

Outstanding(op, cont) == {c \in BagToSet(inflight) : c.op = op /\ c.cont = cont}

\* ---------------------------------------------------------------- actions

\* The load-time call of startInitialization_.
StartInitialization ==
  /\ uninitialized_
  /\ Commit(Submit([Enter(Cur) EXCEPT !.uninitialized_ = FALSE],
                   Call("storage.local.get", "finishInit_", 0, 0, HoleTab,
                        NoClosure, EmptyRec)))

\* chrome.storage.local.get answers.
LocalOptionsFetched ==
  \E c \in Outstanding("storage.local.get", "finishInit_") :
    Commit(finishInit_(Take(Enter(Cur), c), localStore))

\* chrome.tabs.query answers updateLocalSessionFromBrowser_.
LocalTabsRefreshed ==
  \E c \in Outstanding("tabs.query", "currentTabs") :
    \E tabs \in BrowserTabsets, t \in Times :
      /\ count.queries < MaxQueries
      /\ t >= localSession_.updateTime
      /\ Commit(currentTabs([Take(Enter(Cur), c) EXCEPT !.count.queries = @ + 1], tabs, t))

\* chrome.tabs.query answers the save pipeline.
SaveTabsQueried ==
  \E c \in Outstanding("tabs.query", "saveLocalToRemote_") :
    \E tabs \in BrowserTabsets :
      /\ count.queries < MaxQueries
      /\ Commit(saveLocalToRemote_(
                  [Take(Enter(Cur), c) EXCEPT !.localSession_.tabs = tabs,
                                              !.count.queries = @ + 1]))

\* chrome.tabs.query answers the restore pipeline.
RestoreTabsQueried ==
  \E c \in Outstanding("tabs.query", "syncBrowserCreatesAndMoves_") :
    \E tabs \in BrowserTabsets :
      /\ count.queries < MaxQueries
      /\ Commit(syncBrowserCreatesAndMoves_(
                  [Take(Enter(Cur), c) EXCEPT !.localSession_.tabs = tabs,
                                              !.count.queries = @ + 1], c.pipe))

\* chrome.storage.sync.get answers.
RemoteFetched ==
  \E c \in Outstanding("storage.sync.get", "onStorageGet") :
    Commit(onStorageGet(Take(Enter(Cur), c), store))

\* chrome.storage.sync.set stores the record and answers.
RemoteWritten ==
  \E c \in Outstanding("storage.sync.set", "") :
    Commit(onStorageSet(StoreSet(Take(Enter(Cur), c), c.rec), TRUE, ""))

\* chrome.storage.sync.set fails (quota, network).
RemoteWriteFailed ==
  \E c \in Outstanding("storage.sync.set", "") :
    Commit(onStorageSet(Take(Enter(Cur), c), FALSE, "QUOTA_BYTES"))

\* The tab chrome hands to the callback of a step of the restore pipeline.
StepResults(c) ==
  IF c.op = "tabs.create"
    THEN LET ids == {localSession_.tabs[i].id : i \in DOMAIN localSession_.tabs}
             wins == {localSession_.tabs[i].windowId : i \in DOMAIN localSession_.tabs}
                       \ {NoWin} IN
         {TabArgs([c.arg EXCEPT !.id = SetMax(ids \cup {10}) + 1, !.windowId = w]) :
            w \in IF wins = {} THEN {1} ELSE wins}
  ELSE IF c.op = "tabs.remove" THEN {NoArgs}
  ELSE {TabArgs(c.arg)}

\* A tab creation, removal, index move or activation of the restore pipeline
\* answers.
StepDone ==
  \E c \in {x \in BagToSet(inflight) : x.cont = "changeDone"} :
    \E args \in StepResults(c) :
      Commit(changeDone(Take(Enter(Cur), c), args))

\* chrome.windows.create answers.
WindowCreated ==
  \E c \in Outstanding("windows.create", "acceptNewWindow") :
    LET wins == {localSession_.tabs[i].windowId : i \in DOMAIN localSession_.tabs} IN
    Commit(acceptNewWindow(Take(Enter(Cur), c), c.clo,
                           SetMax(wins \cup {10}) + 1))

\* A move of a tab to another window completes; it has no callback.
WindowMoveDone ==
  \E c \in Outstanding("tabs.move", "") :
    Commit(Take(Enter(Cur), c))

\* The timer of scheduleLocalSessionUpdate_ fires.
RefreshTimerFired ==
  \E tm \in timers :
    Commit(updateLocalSessionFromBrowser_([Enter(Cur) EXCEPT !.timers = @ \ {tm}]))

\* The user changes a tab: any chrome.tabs event but onRemoved.
TabChanged ==
  /\ initialized_
  /\ count.env < MaxEnvEvents
  /\ Commit(onTabChange_([Enter(Cur) EXCEPT !.count.env = @ + 1,
                                             !.count.tabEvents = @ + 1]))

\* The user closes a tab or a window.
TabRemoved ==
  /\ initialized_
  /\ count.env < MaxEnvEvents
  /\ \E isWindowClosing \in BOOLEAN :
       Commit(onTabRemove_([Enter(Cur) EXCEPT !.count.env = @ + 1,
                                                  !.count.tabEvents = @ + 1],
                           isWindowClosing))

\* Another device saves its session.
OtherDeviceSaved ==
  /\ ~uninitialized_
  /\ count.env < MaxEnvEvents
  /\ \E sess \in SavedSessions :
       Commit(StoreSet([Enter(Cur) EXCEPT !.count.env = @ + 1], toSync(sess)))

\* chrome.storage.onChanged is delivered.
StorageChanged ==
  /\ notifs # <<>>
  /\ Commit(onChromeStorageChange_(
              [Enter(Cur) EXCEPT !.notifs = Tail(@)],
              Head(notifs)))

\* The configs a caller of setOptions passes: the popup's four mode buttons
\* and its debug box, and a caller that names a mode that does not exist,
\* alone or with the debug flag.
Configs ==
  {Config(mode, NoField) : mode \in Modes \cup {"kiosk"}}
    \cup {Config(NoField, dbg) : dbg \in {"true", "false"}}
    \cup {Config("kiosk", "true")}

\* The popup UI.
UiSave ==
  /\ ~uninitialized_
  /\ count.ui < MaxUiCalls
  /\ Commit(saveLocalToRemote([Enter(Cur) EXCEPT !.count.ui = @ + 1], "ui"))

UiRestore ==
  /\ ~uninitialized_
  /\ count.ui < MaxUiCalls
  /\ Commit(syncBrowserFromRemote([Enter(Cur) EXCEPT !.count.ui = @ + 1], "ui"))

UiSetOptions ==
  /\ ~uninitialized_
  /\ count.ui < MaxUiCalls
  /\ \E config \in Configs :
       Commit(setOptions([Enter(Cur) EXCEPT !.count.ui = @ + 1], config))

Next ==
  \/ StartInitialization
  \/ LocalOptionsFetched
  \/ LocalTabsRefreshed
  \/ SaveTabsQueried
  \/ RestoreTabsQueried
  \/ RemoteFetched
  \/ RemoteWritten
  \/ RemoteWriteFailed
  \/ StepDone
  \/ WindowCreated
  \/ WindowMoveDone
  \/ RefreshTimerFired
  \/ TabChanged
  \/ TabRemoved
  \/ OtherDeviceSaved
  \/ StorageChanged
  \/ UiSave
  \/ UiRestore
  \/ UiSetOptions

Spec == Init /\ [][Next]_vars

\* ------------------------------------------------- bursts of tab events

\* The controller with a user who changes and closes tabs up to MaxBurst
\* times and may ask for a restore, and no other device; the tab query of a
\* save is not answered within a run.
BurstTabChanged ==
  /\ initialized_
  /\ count.tabEvents < MaxBurst
  /\ Commit(onTabChange_([Enter(Cur) EXCEPT !.count.tabEvents = @ + 1]))

BurstTabRemoved ==
  /\ initialized_
  /\ count.tabEvents < MaxBurst
  /\ \E isWindowClosing \in BOOLEAN :
       Commit(onTabRemove_([Enter(Cur) EXCEPT !.count.tabEvents = @ + 1],
                           isWindowClosing))

NextBurst ==
  \/ StartInitialization
  \/ LocalOptionsFetched
  \/ LocalTabsRefreshed
  \/ RestoreTabsQueried
  \/ RemoteFetched
  \/ StepDone
  \/ WindowCreated
  \/ WindowMoveDone
  \/ RefreshTimerFired
  \/ UiRestore
  \/ BurstTabChanged
  \/ BurstTabRemoved

SpecBurst == Init /\ [][NextBurst]_vars

\* ------------------------------------------- the phase sequencer by itself

\* A client of SyncPhaseHandler that follows its protocol: initHandler, then
\* at most MaxSteps doStep calls, then finalize.  A step's chrome function
\* calls changeDone inside doStep or at any later time.
ClientCall == Call("client.step", "changeDone", 0, 0, HoleTab, NoClosure, EmptyRec)

ClientInitHandler ==
  /\ client.stage = "none"
  /\ Commit(initHandler([Enter(Cur) EXCEPT !.client.stage = "open"],
                        Callback("onComplete", 0)))

ClientSetDoStepCallback ==
  /\ client.stage = "open"
  /\ client.armed < MaxSteps
  /\ stepCallback = NoStepCallback
  /\ Commit(setDoStepCallback([Enter(Cur) EXCEPT !.client.armed = @ + 1],
                              StepCallback("onStep", NoClosure), client.armed))

ClientDoStep ==
  /\ client.stage = "open"
  /\ client.steps < MaxSteps
  /\ Commit(doStep([Enter(Cur) EXCEPT !.client.steps = @ + 1], ClientCall))

ClientDoStepSync ==
  /\ client.stage = "open"
  /\ client.steps < MaxSteps
  /\ Commit(changeDone(
              Take(doStep([Enter(Cur) EXCEPT !.client.steps = @ + 1,
                                             !.client.done = @ + 1], ClientCall),
                   ClientCall),
              NoArgs))

ClientStepDone ==
  /\ BagIn(ClientCall, inflight)
  /\ Commit(changeDone(
              Take([Enter(Cur) EXCEPT !.client.done = @ + 1,
                                      !.client.late = IF client.stage = "final"
                                                        THEN @ + 1 ELSE @],
                   ClientCall),
              NoArgs))

ClientFinalize ==
  /\ client.stage = "open"
  /\ Commit(finalize([Enter(Cur) EXCEPT !.client.stage = "final"]))

InitPhase == Constructed(EmptyRec, EmptyRec)

NextPhase ==
  \/ ClientInitHandler
  \/ ClientSetDoStepCallback
  \/ ClientDoStep
  \/ ClientDoStepSync
  \/ ClientStepDone
  \/ ClientFinalize

SpecPhase == InitPhase /\ [][NextPhase]_vars

\* ------------------------------------------------- the sessions by themselves

\* A user of TabberSession and getSessionDiff that holds a local and a remote
\* session and makes at most MaxSessionOps calls: the calls the controller
\* makes (refresh, fetch, storage change, clone after a write, diff) and the
\* public update(), with arguments of its choice.

\* Sessions as a browser or another device leaves them.
HarnessSessions ==
  SavedSessions \cup
  { [description |-> "default", generation |-> g, updateTime |-> t,
     tabs |-> tabs, numtabs |-> Len(tabs), extra |-> {}] :
      g \in 1..MaxRemoteGen, t \in Times, tabs \in BrowserTabsets }

\* Records chrome.storage.sync can hold or report as changed.
SessionRecords == InitialStores \cup {toSync(sess) : sess \in HarnessSessions}

\* Changes of single keys, as onChromeStorageChange_ passes them on.
KeyChanges ==
  {[k \in {"numtabs"} |-> n] : n \in {0, 3}} \cup
  {[k \in {"generation"} |-> g] : g \in 0..MaxRemoteGen} \cup
  {[k \in {"junk"} |-> 0]}

BenchCall(s, op) ==
  [s EXCEPT !.bench = [NoBench EXCEPT !.op = op, !.ops = s.bench.ops + 1,
                                      !.loc = s.localSession_,
                                      !.rem = s.remoteSession_]]

\* currentTabs: the local session takes the tabs chrome answered.
SessRefresh ==
  /\ bench.ops < MaxSessionOps
  /\ \E tabs \in BrowserTabsets, t \in Times :
       Commit([BenchCall(Enter(Cur), "refresh") EXCEPT
                 !.localSession_ = Refreshed(@, tabs, t)])

Fetched(s, r) ==
  [s EXCEPT !.remoteSession_ = r.sess, !.bench.obsoleteKeys = r.obsoleteKeys]

\* onStorageGet: a new session takes the record chrome.storage.sync holds.
SessFetch ==
  /\ bench.ops < MaxSessionOps
  /\ \E items \in SessionRecords :
       Commit(Fetched(BenchCall(Enter(Cur), "fetch"),
                      updateProps(NewSession(0), items)))

\* onChromeStorageChange_: the remote session takes the changed keys.
SessChange ==
  /\ bench.ops < MaxSessionOps
  /\ \E items \in SessionRecords \cup KeyChanges :
       Commit(Fetched(BenchCall(Enter(Cur), "change"),
                      updateProps(remoteSession_, items)))

Updated(s, key, r) ==
  [s EXCEPT !.remoteSession_ = r.sess, !.bench.key = key, !.bench.ok = r.ok]

\* update('numtabs', n) on the remote session.
SessUpdateNumtabs ==
  /\ bench.ops < MaxSessionOps
  /\ \E n \in 0..3 :
       Commit(Updated(BenchCall(Enter(Cur), "update"), "numtabs",
                      update(remoteSession_, "numtabs", n)))

\* update('Tab_n', tab) on the remote session.
SessUpdateTab ==
  /\ bench.ops < MaxSessionOps
  /\ \E n \in 0..2, tabs \in RemoteTabsets :
       Commit(Updated(BenchCall(Enter(Cur), "update"), TabKey(n),
                      update(remoteSession_, TabKey(n), tabs[1])))

\* Keys a caller of update can pass beside numtabs and Tab_<n>.
OtherKeys == {"description", "tabs", "junk", "", NaNTabKey, "touch"}

\* update(key, 'saved') on the remote session, for any other key.
SessUpdateOther ==
  /\ bench.ops < MaxSessionOps
  /\ \E key \in OtherKeys :
       Commit(Updated(BenchCall(Enter(Cur), "update"), key,
                      update(remoteSession_, key, "saved")))

\* The write callback: the remote session becomes a copy of the local one.
SessClone ==
  /\ bench.ops < MaxSessionOps
  /\ Commit([BenchCall(Enter(Cur), "clone") EXCEPT
               !.remoteSession_ = CloneSession(localSession_)])

Compared(s, d) ==
  [s EXCEPT !.localSession_ = d.loc, !.remoteSession_ = d.rem, !.bench.diff = d.diff]

\* getSessionDiff(localSession_, remoteSession_)
SessDiff ==
  /\ bench.ops < MaxSessionOps
  /\ Commit(Compared(BenchCall(Enter(Cur), "diff"),
                     getSessionDiff(localSession_, remoteSession_)))

Decoded(s, sess, r, parsed) ==
  [s EXCEPT !.bench.loc = sess, !.bench.decoded = r.sess,
            !.bench.obsoleteKeys = r.obsoleteKeys, !.bench.parsed = parsed]

\* toSync() of one of the sessions, read back by updateProps and by fromSync
\* on new sessions.
SessCodec ==
  /\ bench.ops < MaxSessionOps
  /\ \E sess \in {localSession_, remoteSession_} :
       Commit(Decoded(BenchCall(Enter(Cur), "codec"), sess,
                      updateProps(NewSession(0), toSync(sess)),
                      fromSync(NewSession(-1), toSync(sess))))

InitSession == Constructed(EmptyRec, EmptyRec)

NextSession ==
  \/ SessRefresh
  \/ SessFetch
  \/ SessChange
  \/ SessUpdateNumtabs
  \/ SessUpdateTab
  \/ SessUpdateOther
  \/ SessClone
  \/ SessDiff
  \/ SessCodec

SpecSession == InitSession /\ [][NextSession]_vars

\* ------------------------------------------- the window matcher by itself

\* A user of the matching part of syncBrowserChromeMapWindows_: it gives the
\* local and the remote session their tabs, then has the windows matched.

\* Tab sequences of n tabs: tab i has id i and index i - 1 or 0, any of two
\* URLs, any of the given windows; the first tab is the active one.
TabSeqs(n, wins) ==
  { [i \in 1..n |-> Tab(c[i][1], IF c[i][3] THEN i - 1 ELSE 0, i, c[i][2], i = 1)] :
      c \in [1..n -> {"a", "b"} \X wins \X BOOLEAN] }

LocalMatchTabsets == UNION {TabSeqs(n, 1..3) : n \in 1..MaxLocalMatchTabs}
RemoteMatchTabsets == UNION {TabSeqs(n, 5..6) : n \in 1..MaxRemoteMatchTabs}

\* The tab query of the restore answered: loc.tabs = tabs.
MatchLocalQueried ==
  /\ localSession_.tabs = <<>>
  /\ \E tabs \in LocalMatchTabsets :
       Commit([Enter(Cur) EXCEPT !.localSession_.tabs = tabs])

\* The remote session holds the tabs of a saved session.
MatchRemoteFetched ==
  /\ remoteSession_.tabs = <<>>
  /\ \E tabs \in RemoteMatchTabsets :
       Commit([Enter(Cur) EXCEPT !.remoteSession_.tabs = tabs,
                                 !.remoteSession_.numtabs = Len(tabs)])

Matched(s, edges, map) == [s EXCEPT !.bench.edges = edges, !.bench.map = map]

\* syncBrowserChromeMapWindows_ up to the end of the greedy walk.
MatchMapWindows ==
  /\ bench.op = "none"
  /\ localSession_.tabs # <<>>
  /\ remoteSession_.tabs # <<>>
  /\ Commit(Matched(BenchCall(Enter(Cur), "match"),
                    MapScores(localSession_.tabs, remoteSession_.tabs),
                    MatchWindows(localSession_.tabs, remoteSession_.tabs)))

InitMatcher == Constructed(EmptyRec, EmptyRec)

NextMatcher ==
  \/ MatchLocalQueried
  \/ MatchRemoteFetched
  \/ MatchMapWindows

SpecMatcher == InitMatcher /\ [][NextMatcher]_vars

\* ---------------------------------------------------- getTabsetDiff by itself

\* Tab sequences of n tabs: tab i has id i and index i - 1, any of two URLs,
\* any of two windows, active or not.
DiffTabSeqs(n) ==
  { [i \in 1..n |-> Tab(c[i][1], i - 1, i, c[i][2], c[i][3])] :
      c \in [1..n -> {"a", "b"} \X (1..2) \X BOOLEAN] }

LocalDiffTabsets == UNION {DiffTabSeqs(n) : n \in 1..MaxLocalMatchTabs}
RemoteDiffTabsets == UNION {DiffTabSeqs(n) : n \in 1..MaxRemoteMatchTabs}

\* The browser's tabs, as a tab query answers them.
DiffLocalQueried ==
  /\ localSession_.tabs = <<>>
  /\ \E tabs \in LocalDiffTabsets :
       Commit([Enter(Cur) EXCEPT !.localSession_.tabs = tabs])

\* The tabs of a saved session.
DiffRemoteFetched ==
  /\ remoteSession_.tabs = <<>>
  /\ \E tabs \in RemoteDiffTabsets :
       Commit([Enter(Cur) EXCEPT !.remoteSession_.tabs = tabs,
                                 !.remoteSession_.numtabs = Len(tabs)])

\* getTabsetDiff(loc.tabs, rem.tabs)
DiffCompared ==
  /\ bench.op = "none"
  /\ localSession_.tabs # <<>>
  /\ remoteSession_.tabs # <<>>
  /\ Commit([BenchCall(Enter(Cur), "tabsetdiff") EXCEPT
               !.bench.diff = getTabsetDiff(localSession_.tabs, remoteSession_.tabs)])

InitTabs == Constructed(EmptyRec, EmptyRec)

NextTabs ==
  \/ DiffLocalQueried
  \/ DiffRemoteFetched
  \/ DiffCompared

SpecTabs == InitTabs /\ [][NextTabs]_vars

\* ------------------------------------------------ a restore run by itself

\* One run of the restore pipeline with nothing else going on: the remote
\* session is one another device saved, the popup asks for a restore, chrome
\* answers the tab query and then every call of the pipeline.

RestoreUrls == {"a", "b"}

\* Tabs as chrome.tabs.query lists them: window by window (the first split
\* tabs in window win, the others in the next one), ids in list order, index
\* within the window, one active tab per window (the last or the first).
TabsOfWindows(urls, split, idBase, win, lastActive) ==
  [i \in 1..Len(urls) |->
     LET first == IF i > split THEN split + 1 ELSE 1
         last == IF i > split THEN Len(urls) ELSE split IN
     Tab(urls[i], i - first, idBase + i, IF i > split THEN win + 1 ELSE win,
         IF lastActive THEN i = last ELSE i = first)]

QueriedTabsets ==
  UNION {{TabsOfWindows(urls, split, 0, 1, FALSE) :
            urls \in [1..n -> RestoreUrls], split \in 1..n} : n \in 1..MaxRestoreTabs}

RestoredSessions ==
  UNION {{[description |-> "default", generation |-> 1, updateTime |-> 1,
           tabs |-> TabsOfWindows(urls, split, 6, 5, lastActive),
           numtabs |-> n, extra |-> {}] :
            urls \in [1..n -> RestoreUrls], split \in 1..n, lastActive \in BOOLEAN} :
         n \in 1..MaxRestoreTabs}

\* The popup asks for a restore of the session the controller holds.
RestoreAsked ==
  /\ count.pipes = 0
  /\ \E sess \in RestoredSessions :
       Commit(syncBrowserFromRemote(
                [Enter(Cur) EXCEPT !.remoteSession_ = sess, !.uninitialized_ = FALSE,
                                   !.initialized_ = TRUE], "ui"))

\* chrome.tabs.query answers the restore pipeline.
RestoreQueried ==
  \E c \in Outstanding("tabs.query", "syncBrowserCreatesAndMoves_") :
    \E tabs \in QueriedTabsets :
      Commit(syncBrowserCreatesAndMoves_(
               [Take(Enter(Cur), c) EXCEPT !.localSession_.tabs = tabs], c.pipe))

InitRestore == Constructed(EmptyRec, EmptyRec)

NextRestore ==
  \/ RestoreAsked
  \/ RestoreQueried
  \/ StepDone
  \/ WindowCreated
  \/ WindowMoveDone

SpecRestore == InitRestore /\ [][NextRestore]_vars

\* C1: once initHandler(onComplete) was called, onComplete is never called
\* twice, and it has been called exactly when finalize() was called and every
\* submitted step has completed - so never before the last completion or
\* before finalize, whatever the order of the completions.
C1_OnCompleteExactlyOnce ==
  /\ client.onCompleteCalls <= 1
  /\ (client.onCompleteCalls = 1) <=> (client.stage = "final" /\ client.done = client.steps)

\* A phase of MaxSteps steps, one of them completing after finalize, is over.
C1_Witness ==
  /\ client.onCompleteCalls = 1
  /\ client.steps = MaxSteps
  /\ client.late >= 1

\* ------------------------------------------------------ restore pipeline

\* The calls of restore run pipe that chrome has not completed yet.
InFlightOf(pipe) == {c \in BagToSet(inflight) : c.pipe = pipe /\ c.phase > 0}

\* C2: while a single restore pipeline runs, the chrome calls it has
\* outstanding all belong to one phase: no call of a later phase is submitted
\* before every call of the phase before it has completed, the moves of tabs
\* to other windows and the window creations included.
C2_PhasesDoNotOverlap ==
  count.pipes = 1 =>
    \A c1, c2 \in InFlightOf(1) : c1.phase = c2.phase

\* ------------------------------------------------------------- busy flags

Starts == Range(log.starts)
Runs == Range(log.runs)

\* C3: a call of syncBrowserFromRemote made while sync_in_progess_ is set is
\* dropped: it changes nothing, so it issues no tab query and starts no
\* second pipeline, whether the UI or a reconcile run made it.
C3_OverlappingRestoreDropped ==
  \A st \in Starts : (st.pipe = "restore" /\ st.syncBusy) => ~st.started

\* The writes to chrome.storage.sync that have not completed yet.
WritesOutstanding ==
  LET writes == {c \in BagToSet(inflight) : c.op = "storage.sync.set"}
      RECURSIVE Sum(_)
      Sum(S) == IF S = {} THEN 0
                ELSE LET c == CHOOSE x \in S : TRUE IN inflight[c] + Sum(S \ {c}) IN
  Sum(writes)

\* C4: a call of saveLocalToRemote made while save_in_progess_ is set changes
\* nothing (no tab query, no write, no state change), and the controller never
\* has more than one write to the remote store outstanding.
C4_OverlappingSaveDropped ==
  /\ \A st \in Starts : (st.pipe = "save" /\ st.saveBusy) => ~st.started
  /\ WritesOutstanding <= 1

\* A save was asked for while another one was waiting for chrome.
C4_Witness ==
  /\ \E st \in Starts : st.pipe = "save" /\ st.saveBusy /\ ~st.started
  /\ save_in_progess_

\* ------------------------------------------------------------------ modes

\* The run of doSync_ reached its decision with a difference to act on.
Actionable(run) == (run.major \/ run.minor) /\ ~run.uninit /\ run.locValid

\* C5: in MANUAL mode a pipeline starts only from a call the UI makes: no
\* reconcile run, whatever notification, timer or refresh led to it, calls
\* saveLocalToRemote or syncBrowserFromRemote.
C5_ManualNeverStartsByItself ==
  /\ \A st \in Starts : st.mode = MANUAL => st.origin = "ui"
  /\ \A run \in Runs : run.mode = MANUAL => ~run.calledSave /\ ~run.calledRestore

\* A reconcile run in MANUAL mode found a difference it could have acted on.
C5_Witness ==
  \E run \in Runs : run.mode = MANUAL /\ Actionable(run) /\ run.initialized

\* C6: in AUTOSTART mode a reconcile run calls syncBrowserFromRemote only
\* during initialization (the reconcile of onStorageGet), never once
\* initialization has completed - here with the mode AUTOSTART from the
\* start, the UI making no call.
C6_AutostartRestoresOnlyAtStart ==
  count.ui = 0 =>
    \A st \in Starts :
      (st.pipe = "restore" /\ st.origin = "doSync_" /\ st.mode = AUTOSTART)
        => ~st.initialized

\* Nothing is left to happen unless the user or another device acts.
Quiescent == inflight = EmptyBag /\ notifs = <<>> /\ timers = {}

\* The remote store holds the tabs of session sess.
StoreHolds(sess) ==
  /\ "numtabs" \in DOMAIN store
  /\ store["numtabs"] = Len(sess.tabs)
  /\ \A t \in DOMAIN sess.tabs :
       TabKey(t - 1) \in DOMAIN store /\ store[TabKey(t - 1)] = sess.tabs[t]

\* C7: in AUTOSAVE mode, when the refresh that follows a tab change has found
\* the local session different from the remote one and the controller has
\* nothing left to do, the remote store holds the local session.
C7_AutosaveSavesLocalChange ==
  ( /\ initialized_
    /\ options_.mode = AUTOSAVE
    /\ count.tabEvents > 0
    /\ count.ui = 0
    /\ ~log.threw
    /\ \E run \in Runs : run.given = "undefined" /\ run.initialized
                          /\ (run.major \/ run.minor)
    /\ Quiescent )
  => StoreHolds(localSession_)

\* C8: a reconcile run calls saveLocalToRemote only if it found a difference,
\* treats local as newer, was entered with local.generation # 1 and the mode
\* is AUTOSYNC or AUTOSAVE; and only such runs start a save.
C8_AutoSaveOnlyWhenAllowed ==
  /\ \A run \in Runs :
       run.calledSave =>
         /\ run.major \/ run.minor
         /\ run.localIsNewer
         /\ ~run.firstTime
         /\ run.mode \in {AUTOSYNC, AUTOSAVE}
  /\ \A st \in Starts :
       (st.pipe = "save" /\ st.origin = "doSync_") => \E run \in Runs : run.calledSave

\* AUTOSAVE, first sync, local newer, major difference: no save.
C8_Witness ==
  \E run \in Runs :
    /\ run.mode = AUTOSAVE /\ run.firstTime /\ run.localIsNewer
    /\ run.major /\ Actionable(run) /\ ~run.calledSave

\* C9: a reconcile run that found a difference, with both sessions
\* initialised, local valid, remote valid and remote treated as newer, calls
\* syncBrowserFromRemote if and only if the mode is AUTOSYNC, or it is
\* AUTOSTART or AUTOSAVE and local.generation was 1 at entry.
C9_AutoRestoreIffAllowed ==
  \A run \in Runs :
    (Actionable(run) /\ run.remValid /\ ~run.localIsNewer) =>
      /\ run.calledRestore <=>
           \/ run.mode = AUTOSYNC
           \/ (run.mode \in {AUTOSTART, AUTOSAVE} /\ run.firstTime)
      /\ run.calledRestore =>
           \E st \in Starts : st.pipe = "restore" /\ st.origin = "doSync_"

\* AUTOSYNC after the first sync, remote valid and newer: restore.
C9_Witness ==
  \E run \in Runs :
    /\ run.mode = AUTOSYNC /\ ~run.firstTime /\ Actionable(run)
    /\ run.remValid /\ ~run.localIsNewer /\ run.calledRestore

\* C10: syncBrowserFromRemote starts the restore pipeline only if the remote
\* session is valid as isSessionValid defines it; else it changes nothing.
C10_RestoreOnlyFromValidRemote ==
  \A st \in Starts : (st.pipe = "restore" /\ st.started) => st.remValid

\* ----------------------------------------------------------------- errors

\* C11: when syncBrowserFromRemote declines to run because the remote session
\* is uninitialised (generation < 0) or has no tabs, the status it leaves,
\* which getStatus returns, has state ERR.
C11_DeclinedRestoreSurfacesError ==
  \A st \in Starts :
    (st.pipe = "restore" /\ (st.remGen < 0 \/ st.remTabs < 1))
      => st.statusAfter = ERR

\* C12: a setOptions call whose mode is none of the four modes changes nothing:
\* the mode, the debug flag and the options in chrome.storage.local are as
\* before, whatever else the config carries; a call with one of the four modes
\* sets the mode and leaves it written in chrome.storage.local.
C12_UnsupportedModeRejected ==
  \A c \in Range(log.options) :
    /\ (c.config.mode \notin Modes \cup {NoField}) =>
          /\ c.modeAfter = c.modeBefore
          /\ c.debugAfter = c.debugBefore
          /\ c.storedAfter = c.storedBefore
    /\ (c.config.mode \in Modes) =>
          /\ c.modeAfter = c.config.mode
          /\ c.storedAfter = [k \in {"options"} |-> [mode |-> c.config.mode]]

\* C13: the callback of the write clears save_in_progess_ whether the write
\* succeeded or failed, and a failed write sets the status to ERR and leaves
\* the remote session as it was; save_in_progess_ is set only while the tab
\* query or the write of a save still owes its callback, so once both have
\* run a new saveLocalToRemote is accepted.
C13_WriteCallbackClearsSaveFlag ==
  /\ \A w \in Range(log.writes) :
       /\ ~w.busyAfter
       /\ ~w.ok => (w.statusAfter = ERR /\ w.remSame)
  /\ save_in_progess_ =>
       \/ Outstanding("tabs.query", "saveLocalToRemote_") # {}
       \/ Outstanding("storage.sync.set", "") # {}

\* A write failed and the next save can start.
C13_Witness ==
  /\ \E w \in Range(log.writes) : ~w.ok /\ w.statusAfter = ERR
  /\ ~save_in_progess_
  /\ Outstanding("storage.sync.set", "") = {}

\* --------------------------------------------------------------- sessions

\* Two sessions hold the same data: description, generation, updateTime and
\* the same tabs in the same order.
SameData(a, b) ==
  /\ a.description = b.description
  /\ a.generation = b.generation
  /\ a.updateTime = b.updateTime
  /\ a.tabs = b.tabs

\* C14: for a valid session s, the record toSync(s) makes, read into a new
\* session by fromSync or by updateProps, gives a session with the
\* description, generation, updateTime and tabs of s, in the same order, with
\* numtabs the number of tabs; updateProps reports no obsolete key.
C14_CodecRoundTrip ==
  (bench.op = "codec" /\ isSessionValid(bench.loc)) =>
    /\ SameData(bench.decoded, bench.loc)
    /\ bench.decoded.numtabs = Len(bench.loc.tabs)
    /\ bench.obsoleteKeys = {}
    /\ SameData(bench.parsed, bench.loc)
    /\ bench.parsed.numtabs = Len(bench.loc.tabs)

\* A valid session of two tabs, refreshed more than once, was encoded and
\* decoded.
C14_Witness ==
  /\ bench.op = "codec"
  /\ isSessionValid(bench.loc)
  /\ Len(bench.loc.tabs) = 2
  /\ bench.loc.generation = 2
  /\ bench.decoded.tabs = bench.loc.tabs

\* C15: numtabs of the local session and of the remote session is the number
\* of their tabs, in every reachable state.
C15_NumtabsIsTabCount ==
  /\ localSession_.numtabs = Len(localSession_.tabs)
  /\ remoteSession_.numtabs = Len(remoteSession_.tabs)

\* C16: the generation of the local session never takes a value lower than
\* one it held earlier: no step lowers it.
C16_GenerationNeverDecreases ==
  [][localSession_'.generation >= localSession_.generation]_vars

\* C16, amended: a step lowers the generation of the local session only
\* where getSessionDiff does: to -1, which marks a session without tabs as
\* uninitialised, or to the generation of the remote session when it found no
\* difference; every other step keeps or raises it.
C16_GenerationLoweredOnlyByDiff ==
  [][localSession_'.generation < localSession_.generation =>
       \/ localSession_'.generation = -1 /\ localSession_'.tabs = <<>>
       \/ /\ localSession_'.generation = remoteSession_'.generation
          /\ \E r \in Range(log'.runs) :
                /\ ~r.major /\ ~r.minor /\ ~r.uninit
                /\ r.remGen = localSession_'.generation]_vars

\* A run of doSync_ found no difference and took the lower remote generation.
C16_Witness ==
  \E r \in Runs :
    /\ ~r.major /\ ~r.minor /\ ~r.uninit
    /\ r.remGen < r.locGen
    /\ localSession_.generation = r.remGen

\* C17: every refresh currentTabs accepts leaves the generation of the local
\* session exactly 1 above the value it found, -1 included.
C17_RefreshAddsOne ==
  \A r \in Range(log.refreshes) : r.genAfter = r.genBefore + 1

\* C17, amended: every refresh currentTabs accepts leaves the generation of
\* the local session exactly 1 above the value it found if that was not
\* negative, and at 1 if the session was uninitialised (-1).
C17_RefreshAddsOneOnceInitialised ==
  \A r \in Range(log.refreshes) : r.genAfter = Max(r.genBefore, 0) + 1

\* The first refresh took the session from -1 to 1.
C17_Witness ==
  \E r \in Range(log.refreshes) : r.genBefore = -1 /\ r.genAfter = 1

\* C18: the diff getSessionDiff returns has at most one of major and minor,
\* and err only with major.
C18_MajorOrMinor ==
  (bench.op = "diff" /\ ~bench.diff.threw) =>
    /\ ~(Truthy(bench.diff.major) /\ Truthy(bench.diff.minor))
    /\ bench.diff.err => Truthy(bench.diff.major)

\* getSessionDiff compared two sessions with tabs and reported a minor
\* difference.
C18_Witness ==
  /\ bench.op = "diff"
  /\ Truthy(bench.diff.minor)
  /\ ~Truthy(bench.diff.major)

\* Both sessions are initialised and hold tabs.
BothReady(loc, rem) ==
  /\ loc.generation >= 0 /\ Len(loc.tabs) >= 1
  /\ rem.generation >= 0 /\ Len(rem.tabs) >= 1

\* C19: for two initialised sessions with the same non-empty tabs and
\* different generations, getSessionDiff returns the empty diff and leaves the
\* local generation equal to the remote one, which is as it was.
C19_SameTabsRebase ==
  (/\ bench.op = "diff"
   /\ BothReady(bench.loc, bench.rem)
   /\ bench.loc.tabs = bench.rem.tabs
   /\ bench.loc.generation # bench.rem.generation) =>
    /\ bench.diff = NoDiff
    /\ localSession_.generation = bench.rem.generation
    /\ remoteSession_.generation = bench.rem.generation

\* Sessions with the same tabs, the local one generation ahead, were compared.
C19_Witness ==
  /\ bench.op = "diff"
  /\ BothReady(bench.loc, bench.rem)
  /\ bench.loc.tabs = bench.rem.tabs
  /\ bench.loc.generation > bench.rem.generation
  /\ localSession_.generation = bench.rem.generation

\* getSessionDiff returned a difference for sessions of equal generation.
DiffOnTie ==
  /\ bench.op = "diff"
  /\ ~bench.diff.threw
  /\ Truthy(bench.diff.major) \/ Truthy(bench.diff.minor)
  /\ bench.loc.generation = bench.rem.generation

\* C20: whenever getSessionDiff returns a major or minor difference, from any
\* of its checks, and the generations were equal, the local generation is
\* exactly 1 above what it was.
C20_TieBumpsLocal ==
  DiffOnTie => localSession_.generation = bench.loc.generation + 1

\* C20, amended: whenever getSessionDiff returns a major or minor difference
\* from its comparison of the tabs of two initialised sessions that both hold
\* tabs, and the generations were equal, the local generation is exactly 1
\* above what it was.
C20_TabDiffTieBumpsLocal ==
  (DiffOnTie /\ BothReady(bench.loc, bench.rem)) =>
    localSession_.generation = bench.loc.generation + 1

\* A difference between the tabs of two sessions of equal generation.
C20_Witness ==
  /\ DiffOnTie
  /\ BothReady(bench.loc, bench.rem)
  /\ localSession_.generation = bench.loc.generation + 1
  /\ remoteSession_.generation = bench.rem.generation

\* ---------------------------------------------------------- window matcher

\* The edge of the local window lwid and the remote window rwid was accepted.
Accepted(e) == <<e.rwid, e.lwid>> \in bench.map

\* C21: the accepted (local window, remote window) pairs are a one-to-one
\* partial matching; exactly min(#local windows, #remote windows) pairs are
\* accepted; every pair that was not accepted shares a window with an accepted
\* pair that scores at least as high; so a pair that scores strictly higher
\* than every other pair is accepted.
C21_GreedyMatching ==
  bench.op = "match" =>
    /\ \A p, q \in bench.map : (p[1] = q[1] \/ p[2] = q[2]) => p = q
    /\ \A p \in bench.map : \E e \in Range(bench.edges) : p = <<e.rwid, e.lwid>>
    /\ Cardinality(bench.map) =
         Min(getTabsetWinCount(bench.loc.tabs), getTabsetWinCount(bench.rem.tabs))
    /\ \A e \in Range(bench.edges) :
         ~Accepted(e) =>
           \E f \in Range(bench.edges) :
             /\ Accepted(f)
             /\ f.rwid = e.rwid \/ f.lwid = e.lwid
             /\ f.score >= e.score
    /\ \A e \in Range(bench.edges) :
         (\A f \in Range(bench.edges) : f # e => f.score < e.score) => Accepted(e)

\* Three local windows were matched to two remote ones; one pair scores
\* strictly highest, and a pair with a positive score was not accepted.
C21_Witness ==
  /\ bench.op = "match"
  /\ getTabsetWinCount(bench.loc.tabs) = 3
  /\ getTabsetWinCount(bench.rem.tabs) = 2
  /\ Cardinality(bench.map) = 2
  /\ \E e \in Range(bench.edges) :
       \A f \in Range(bench.edges) : f # e => f.score < e.score
  /\ \E e \in Range(bench.edges) : ~Accepted(e) /\ e.score > 0

\* ------------------------------------------------------------------ storage

\* C22: every key of a remote record that updateProps rejects is removed from
\* chrome.storage.sync, in onStorageGet and in onChromeStorageChange_: when
\* the handler is done the store holds none of the keys it rejected.
C22_RejectedKeysPruned ==
  \A key \in log.rejected : key \notin DOMAIN store

\* ------------------------------------------------------------- concurrency

\* C23: while a restore pipeline is in progress (sync_in_progess_ set) no
\* refresh of the local session runs, whenever its timer or its tab query was
\* started: currentTabs of updateLocalSessionFromBrowser_ never finds the flag
\* set.
C23_NoRefreshDuringRestore ==
  \A r \in Range(log.refreshes) : ~r.syncBusy

\* ---------------------------------------------------------------- reconcile

\* A run of doSync_ that deferred: after the diff a session had a negative
\* generation or the local session was not valid.
Deferred(r) == r.uninit \/ ~r.locValid

\* C24: a run of doSync_ that finds, after the diff, a session with generation
\* < 0 or the local session not valid calls neither saveLocalToRemote nor
\* syncBrowserFromRemote and does not call itself, in every mode and for every
\* localIsNewer; a handler all of whose runs deferred starts no pipeline and
\* issues no chrome call on behalf of doSync_.
C24_DeferredRunStartsNothing ==
  /\ \A r \in Runs : Deferred(r) => (~r.calledSave /\ ~r.calledRestore /\ ~r.recursed)
  /\ (Runs # {} /\ \A r \in Runs : Deferred(r)) =>
       \A st \in Starts : st.origin # "doSync_"

\* A run that deferred although the mode is one that saves, the local side
\* was taken as newer, it was not the first sync and there was a difference.
C24_Witness ==
  \E r \in Runs :
    /\ Deferred(r) /\ r.major
    /\ r.mode \in {AUTOSAVE, AUTOSYNC} /\ ~r.firstTime /\ r.localIsNewer
    /\ ~r.calledSave
    /\ \A st \in Starts : st.origin # "doSync_"

\* C25: when a run of doSync_ finds a difference, takes the remote side as
\* newer and the remote session is not valid, it adopts the local session as
\* the remote one in memory (afterwards remoteSession_ has the generation,
\* updateTime and tabs of localSession_) and runs once more with localIsNewer
\* true, without a further recursion.
C25_InvalidRemoteAdoptsLocal ==
  \A i \in DOMAIN log.runs :
    log.runs[i].recursed =>
      /\ i < Len(log.runs)
      /\ log.runs[i + 1].given = "true"
      /\ ~log.runs[i + 1].recursed
      /\ log.runs[i + 1].remGen = log.runs[i + 1].locGen
      /\ SameData(remoteSession_, localSession_)

\* The localIsNewer doSync_ is specified to use, from what the run found at
\* entry.
InferredLocalIsNewer(r) ==
  IF r.given = "undefined"
    THEN (r.mode = AUTOSAVE /\ r.locGen # 1) \/ (r.locGen >= r.remGen)
    ELSE r.given = "true"

\* C26: called without localIsNewer, doSync_ takes it as true exactly when
\* (mode is AUTOSAVE and local.generation # 1 at entry) or local.generation >=
\* remote.generation at entry; a value that is passed is used as it is.  A run
\* calls saveLocalToRemote only with that value true, and calls
\* syncBrowserFromRemote or itself only with it false.
C26_InfersLocalIsNewer ==
  \A r \in Runs :
    /\ r.localIsNewer = InferredLocalIsNewer(r)
    /\ r.calledSave => InferredLocalIsNewer(r)
    /\ (r.calledRestore \/ r.recursed) => ~InferredLocalIsNewer(r)

\* A run without the argument, local generation equal to the remote one at
\* entry, that found a difference (so getSessionDiff raised the local
\* generation) and saved.
C26_Witness ==
  \E r \in Runs :
    /\ r.given = "undefined" /\ r.locGen = r.remGen /\ r.locGen > 1
    /\ r.mode = AUTOSYNC
    /\ r.major \/ r.minor
    /\ r.calledSave

\* ------------------------------------------------------------------- update

\* C28: update(key, value) accepts a key only if it is one of the session's
\* properties description, generation, updateTime, numtabs or is Tab_<n> with
\* n a non-negative integer; Tab_<n> with n >= numtabs is rejected and leaves
\* the session as it was; numtabs with a value below the tab count leaves
\* exactly the first value tabs; tabs and every key that is not recognised are
\* rejected with the session as it was.
C28_UpdateValidatesKey ==
  bench.op = "update" =>
    /\ bench.ok => (bench.key \in SessionProps \ {"tabs"} \/ IsTabKey(bench.key))
    /\ (IsTabKey(bench.key) /\ TabKeyIndex(bench.key) >= bench.rem.numtabs) =>
         (~bench.ok /\ remoteSession_ = bench.rem)
    /\ (bench.key = "numtabs" /\ remoteSession_.numtabs < Len(bench.rem.tabs)) =>
         /\ bench.ok
         /\ remoteSession_.tabs = SubSeq(bench.rem.tabs, 1, remoteSession_.numtabs)
    /\ (bench.key \notin SessionProps /\ ~IsTabKey(bench.key)) =>
         (~bench.ok /\ remoteSession_ = bench.rem)
    /\ bench.key = "tabs" => (~bench.ok /\ remoteSession_ = bench.rem)

\* ------------------------------------------------------------ getTabsetDiff

\* |a - b|
AbsDiff(a, b) == IF a >= b THEN a - b ELSE b - a

\* Some position of the two sequences, of equal length, holds tabs with
\* different URLs.
UrlsDiffer(tabs1, tabs2) == \E t \in DOMAIN tabs1 : tabs1[t].url # tabs2[t].url

\* C27: getTabsetDiff(seq1, seq2) returns a major difference with count
\* |len(seq1) - len(seq2)| when the lengths differ; else a major difference
\* when the numbers of windows differ; else the major difference 'different
\* URLs' when some position has different URLs; and a minor difference only if
\* no position has a major one, so an earlier minor difference never hides a
\* later major one.  For three tabs against two it reports a tab-count major
\* difference with count 1.
C27_TabsetDiffOrder ==
  bench.op = "tabsetdiff" =>
    LET tabs1 == bench.loc.tabs
        tabs2 == bench.rem.tabs
        dif == bench.diff IN
    IF Len(tabs1) # Len(tabs2)
      THEN /\ dif.major.count = AbsDiff(Len(tabs1), Len(tabs2))
           /\ dif.major.text = (IF Len(tabs1) > Len(tabs2) THEN "fewer tabs" ELSE "more tabs")
           /\ ~Truthy(dif.minor)
    ELSE IF getTabsetWinCount(tabs1) # getTabsetWinCount(tabs2)
      THEN /\ dif.major.count =
                AbsDiff(getTabsetWinCount(tabs1), getTabsetWinCount(tabs2))
           /\ dif.major.text \in {"fewer windows", "more windows"}
           /\ ~Truthy(dif.minor)
    ELSE IF UrlsDiffer(tabs1, tabs2)
      THEN dif.major.text = "different URLs" /\ ~Truthy(dif.minor)
    ELSE /\ ~Truthy(dif.major)
         /\ Truthy(dif.minor) <=> \E t \in DOMAIN tabs1 : tabs1[t].active # tabs2[t].active

\* Two tabs against two, as many windows, the first position differs in the
\* active flag only and the second in the URL: the difference is major.
C27_Witness ==
  /\ bench.op = "tabsetdiff"
  /\ Len(bench.loc.tabs) = 2 /\ Len(bench.rem.tabs) = 2
  /\ getTabsetWinCount(bench.loc.tabs) = getTabsetWinCount(bench.rem.tabs)
  /\ bench.loc.tabs[1].url = bench.rem.tabs[1].url
  /\ bench.loc.tabs[1].active # bench.rem.tabs[1].active
  /\ bench.loc.tabs[2].url # bench.rem.tabs[2].url
  /\ bench.diff.major.text = "different URLs"

\* ------------------------------------------------------------- the debounce

\* C29: at any time at most one refresh timer is armed, and pending_update_
\* is its id; every armed timer was armed after the last tab notification, so
\* of a burst of notifications only the timer of the last one can fire; and a
\* tab notification handled while no restore is in progress leaves exactly
\* one timer armed, the one it armed, with a delay of sync_delay or
\* urgent_sync_delay (urgent_sync_delay while the local generation is below 2).
C29_Debounce ==
  /\ [](/\ Cardinality(timers) <= 1
        /\ \A tm \in timers : tm.id = pending_update_ /\ tm.after = count.tabEvents)
  /\ [][(count.tabEvents' # count.tabEvents /\ ~sync_in_progess_) =>
         \E tm \in timers' :
           /\ timers' = {tm}
           /\ tm \notin timers \/ Cardinality(timers) = 1
           /\ tm.delay \in {sync_delay, urgent_sync_delay}
           /\ localSession_.generation < 2 => tm.delay = urgent_sync_delay]_vars

\* A burst of MaxBurst notifications after the first refresh, none of whose
\* timers has fired: one timer is armed, that of the last notification.
C29_Witness ==
  /\ count.tabEvents = MaxBurst
  /\ ~sync_in_progess_
  /\ count.queries = 1
  /\ \A c \in BagToSet(inflight) : c.cont # "currentTabs"
  /\ timers = {Timer(pending_update_, urgent_sync_delay, MaxBurst)}

\* ------------------------------------------------- completion of a restore

\* C30: every restore pipeline that starts completes and clears
\* sync_in_progess_ when every chrome operation calls back - in safety form:
\* once no chrome call of the controller is outstanding, sync_in_progess_ is
\* clear.
C30_RestoreCompletes ==
  inflight = EmptyBag => ~sync_in_progess_

\* ------------------------------------------------- save against restore

\* C35: the save pipeline and the restore pipeline are never in flight
\* together: save_in_progess_ and sync_in_progess_ are not both set.
C35_SaveAndRestoreExclusive ==
  ~(save_in_progess_ /\ sync_in_progess_)

\* C37: when the write of a save succeeds, the remote session in memory is
\* the record that was written: the store then holds its generation, its
\* updateTime and its tabs.
C37_RemoteImageIsWrittenRecord ==
  \A w \in Range(log.writes) :
    w.ok => /\ StoreHolds(remoteSession_)
            /\ store["generation"] = remoteSession_.generation
            /\ store["updateTime"] = remoteSession_.updateTime

\* The handler of a change of chrome storage ran on a change of the options
\* key alone.
OptionsOnlyChange ==
  /\ notifs # <<>>
  /\ notifs' = Tail(notifs)
  /\ DOMAIN Head(notifs).vals = {"options"}
  /\ Head(notifs).removed = {}

\* C38: a change notification of the options key alone starts no restore when
\* the sessions differ and the local generation is not below the remote one.
C38_ModeChangeKeepsNewerLocal ==
  [][(/\ OptionsOnlyChange
      /\ localSession_.generation >= remoteSession_.generation
      /\ log'.runs # <<>>
      /\ log'.runs[1].major \/ log'.runs[1].minor)
     => \A st \in Range(log'.starts) : st.pipe = "restore" => ~st.started]_vars

\* The writes to chrome.storage.sync the step has issued.
NewWrites ==
  {c \in BagToSet(inflight') :
     c.op = "storage.sync.set" /\ CopiesIn(c, inflight') > CopiesIn(c, inflight)}

\* C39: every record a save writes has a generation above that of the remote
\* session in memory when the write is issued, numtabs equal to the number of
\* its Tab_<i> keys, which are Tab_0 .. Tab_<numtabs-1>, and no tabs key.
C39_WrittenRecordShape ==
  [][\A c \in NewWrites :
       /\ c.rec["generation"] > remoteSession_.generation
       /\ {k \in DOMAIN c.rec : StartsWithTab(k)} =
            {TabKey(i) : i \in 0..(c.rec["numtabs"] - 1)}
       /\ "tabs" \notin DOMAIN c.rec]_vars

\* A write of two tabs is outstanding whose generation was raised to one
\* above the remote one.
C39_Witness ==
  \E c \in BagToSet(inflight) :
    /\ c.op = "storage.sync.set"
    /\ c.rec["numtabs"] = 2
    /\ remoteSession_.generation >= 1
    /\ c.rec["generation"] = remoteSession_.generation + 1
    /\ localSession_.generation = c.rec["generation"]

\* C36: while a restore pipeline is in flight the remote session it reads is
\* not modified: no step taken with sync_in_progess_ set before and after it
\* changes the tabs of the remote session.
C36_RemoteStableDuringRestore ==
  [][(sync_in_progess_ /\ sync_in_progess_')
       => remoteSession_'.tabs = remoteSession_.tabs]_vars

\* ------------------------------------------------ phases of the restore

\* The snapshots taken when the phase before callback next finished.
PhasesBefore(next) == {p \in Range(log.phases) : p.next = next}

\* The tabs chrome.tabs.query answered have ids 1, 2, .. in the order of the
\* answer; the tabs the pipeline created have ids above 10.
Created(tab) == tab.id = NoId \/ tab.id > 10

\* C31: when Create/Align finishes, the local tab sequence is at least as
\* long as the remote one, every local tab below the remote tab count has no
\* major difference from the remote tab at its position, and the tabs the
\* browser had at positions that matched from the start on are still there.
C31_AlignedWhenCreateAlignFinishes ==
  \A p \in PhasesBefore("syncBrowserDeletes_") :
    /\ Len(p.loc) >= Len(p.rem)
    /\ \A i \in 1..Len(p.rem) :
         /\ ~Truthy(getTabsDiff(p.loc[i], p.rem[i]).major)
         /\ (\A j \in 1..i : \E tab \in Range(p.loc) :
                                tab.id = j /\ tab.url = p.rem[j].url)
              => p.loc[i].id = i

C33_WindowsMirrorRemote ==
  \A p \in PhasesBefore("syncBrowserChromeMove_") :
    \A t, u \in DOMAIN p.loc \cap DOMAIN p.rem :
      (p.loc[t].windowId = p.loc[u].windowId)
        <=> (p.rem[t].windowId = p.rem[u].windowId)

RemovesInFlight == {c \in BagToSet(inflight) : c.op = "tabs.remove"}

\* C34: when a restore run on its own completes, the local tabs are as many
\* as the remote ones and getTabsetDiff finds no major and no minor
\* difference between them; and the Delete phase asks chrome to remove each
\* local tab beyond the remote tab count once, and no other tab.
C34_RestoredMatchesRemote ==
  /\ \A p \in PhasesBefore("phaseDone") :
       /\ Len(localSession_.tabs) = Len(remoteSession_.tabs)
       /\ getTabsetDiff(localSession_.tabs, remoteSession_.tabs) = NoDiff
  /\ \A p \in PhasesBefore("syncBrowserDeletes_") :
       /\ {c.arg : c \in RemovesInFlight} =
            {p.loc[k] : k \in (Len(p.rem) + 1)..Len(p.loc)}
       /\ \A c \in RemovesInFlight : CopiesIn(c, inflight) = 1
       /\ Cardinality(RemovesInFlight) = Max(0, Len(p.loc) - Len(p.rem))

C34_Witness ==
  /\ PhasesBefore("phaseDone") # {}
  /\ ~sync_in_progess_
  /\ Len(localSession_.tabs) = 3
  /\ \E i, j, k \in 1..3 :
       /\ Created(localSession_.tabs[i])
       /\ localSession_.tabs[j].windowId > 10
       /\ j < k /\ localSession_.tabs[j].id = 2 /\ localSession_.tabs[k].id = 1
       /\ localSession_.tabs[k].active

RECURSIVE Surplus(_, _, _)
\* The size of the multiset difference of the URLs of xs minus those of ys.
Surplus(urls, xs, ys) ==
  IF urls = {} THEN 0
  ELSE LET url == CHOOSE u \in urls : TRUE
           nx == Cardinality({i \in DOMAIN xs : xs[i].url = url})
           ny == Cardinality({i \in DOMAIN ys : ys[i].url = url}) IN
       Max(0, nx - ny) + Surplus(urls \ {url}, xs, ys)

UrlsOf(xs, ys) == {xs[i].url : i \in DOMAIN xs} \cup {ys[i].url : i \in DOMAIN ys}

\* The tabs of a snapshot that chrome.tabs.query answered.
Queried(tabs) == SelectSeq(tabs, LAMBDA tab : ~Created(tab))

\* C40: when Create/Align finishes, it has created as many tabs as there are
\* URLs in the multiset difference remote minus local, and the Delete phase
\* removes as many as there are in local minus remote.
C40_CreatesAndRemovesAreTheDifference ==
  \A p \in PhasesBefore("syncBrowserDeletes_") :
    /\ Len(p.loc) - Len(Queried(p.loc)) =
         Surplus(UrlsOf(p.loc, p.rem), p.rem, Queried(p.loc))
    /\ Cardinality({c \in RemovesInFlight : c.pipe = completionCallback.pipe}) =
         Surplus(UrlsOf(p.loc, p.rem), Queried(p.loc), p.rem)

====
